---- MODULE Spec2Model ----
(***************************************************************************)
(* Model of the screen-audio transcriber (src/app/main.js, the recognition *)
(* worker src/unnamed/part_001 and the capture worklet                     *)
(* src/app/pcm-worklet.js).                                                *)
(*                                                                         *)
(* The main thread is one event loop: every handler (a worklet chunk, a    *)
(* worker message, a button click, the continuation of an await) runs to   *)
(* completion, so each is one action.  Handlers are written as operators   *)
(* on a record m of the main thread's globals, composed the way the code   *)
(* calls them.  The worker is a second event loop; its engine call         *)
(* (await asr(...)) is opaque: it ends with a result or an error, or it    *)
(* does not end.                                                           *)
(*                                                                         *)
(* Scale.  Samples are kept as explicit sequences, so the sample rate is   *)
(* scaled down: TARGET_SR is 1 sample per second instead of 16000.  All    *)
(* arithmetic of the code is kept as written (seconds * TARGET_SR,         *)
(* samples / TARGET_SR * 1000).  With this rate the quotients are exact    *)
(* integers, as the float64 results of the code are exact multiples of     *)
(* 1/16 ms at the real rate.                                               *)
(***************************************************************************)
EXTENDS Integers, Sequences, FiniteSets, TLC

\* ------------------------------------------------------------- bounds
\* Samples the capture processors deliver in total before the model stops them.
MaxSamples == 13
\* How many times capture is started.
MaxStarts == 2
\* Wall clock: between two reads of Date.now() 1..MaxElapsed ticks of TickMs
\* milliseconds pass.
MaxElapsed == 1
TickMs == 500

\* Chunk lengths the capture processor delivers (not aligned with the windows).
ChunkLens == {2, 3}
\* Values of the window and overlap inputs (seconds); 0 stands for every
\* falsy Number(...) result (empty or non-numeric text, and 0 itself).
WinSecInputs == {5}
OvlSecInputs == {-1, 1}

\* ---------------------------------------------------------- constants
TARGET_SR == 1

\* null of the code, for fields holding a number (all numbers are >= 0).
null == 0 - 1
\* null of the code, for fields holding an object: <<>>, the object r is <<r>>.
NoObj == <<>>

\* The i-th sample (0-based) produced by capture processor instance g.
\* All distinct and different from the 0 a fresh Float32Array holds.
Sample(g, i) == <<g, i>>
ZeroSample == <<0, 0>>

VARIABLES
  \* UI inputs, fixed during a behaviour
  winSecIn, ovlSecIn, autoRunSel, diarizeSel, spkThreshIn,
  \* wall clock
  now,
  \* main thread (main.js globals)
  displayStream, workletNode, stopPc, btnTranscribeDisabled,
  captureStartEpochMs, firstSampleStart,
  pcmBlocks, totalBufferedSamples,
  asrReady, inflightAsr, nextId,
  transcriptWords, transcriptSegments,
  \* diarization: the VAD object, the embedder's readiness, the clusters,
  \* and the number of segment ids drawn so far
  VAD, spkReady, speakerClusters, nextSpeakerId, nextSegId,
  \* capture processor (pcm-worklet.js): instance number and its cursor, and
  \* the samples delivered by all instances
  gen, outSampleCursor, delivered,
  \* worker (part_001) and the two message channels
  toWorker, asrBusy, asrJob, spkBusy, spkJob, toMain,
  \* history: windows dispatched since the last clearAll, the session clock
  \* in force at the last dispatch, the last read of the timeline buffer and
  \* the last applications of sampleToEpochMs (component specifications)
  dispatched, dispatchClock, lastRead, converted,
  \* history: the end of the window whose job failed last (until the next
  \* dispatch or clearAll), the ids of the segments whose embedding failed,
  \* the vectors clustered so far with their results, a second run of the
  \* clustering on the same vectors, and the speech run the VAD is in
  lastFailed, spkFailed, discarded, clusterLog, replay, vadRun, chunkRms,
  \* worker, model loading: the device of the loaded recognition and
  \* embedding pipelines (the globals asr and spk; "none": not loaded), the position of initASR and
  \* of initSPK, and (history) the pipeline constructions attempted
  asrPipeline, spkPipeline, asrInit, spkInit, pipelineLog,
  \* summarization: the text of the transcript area (a sequence of
  \* characters, each a number no other character has), lastSummarizedChar,
  \* the calls of summarizeNow waiting for the server, and (history) the
  \* characters of the deltas the server has answered and the next character
  transcriptTa, lastSummarizedChar, summaryCalls, summarizedChars, nextChar,
  \* capture processor: the sample rate of the audio context (this.inRate)
  inRate

uiVars == <<winSecIn, ovlSecIn, autoRunSel, diarizeSel, spkThreshIn>>
mainVars == <<displayStream, workletNode, stopPc, btnTranscribeDisabled,
              captureStartEpochMs, firstSampleStart, pcmBlocks,
              totalBufferedSamples, asrReady, inflightAsr, nextId,
              transcriptWords, transcriptSegments, dispatched, dispatchClock,
              VAD, spkReady, speakerClusters, nextSpeakerId, nextSegId,
              lastFailed, spkFailed, discarded>>
workletVars == <<gen, outSampleCursor, delivered>>
workerVars == <<asrBusy, asrJob, spkBusy, spkJob>>
loadVars == <<asrPipeline, spkPipeline, asrInit, spkInit, pipelineLog>>
sumVars == <<transcriptTa, lastSummarizedChar, summaryCalls, summarizedChars,
             nextChar>>
diarHist == <<clusterLog, replay, vadRun, chunkRms>>
histVars == <<lastRead, converted, diarHist>>
vars == <<uiVars, inRate, sumVars, loadVars, now, mainVars, workletVars, toWorker, workerVars,
          toMain, histVars>>

\* ------------------------------------------------------------ helpers
Max(a, b) == IF a >= b THEN a ELSE b
Min(a, b) == IF a <= b THEN a ELSE b
clamp(x, a, b) == Max(a, Min(b, x))

\* Number(v) || d
NumberOr(v, d) == IF v = 0 THEN d ELSE v

getWindowParams ==
  LET winSec == clamp(NumberOr(winSecIn, 15), 5, 60)
      ovlSec == clamp(NumberOr(ovlSecIn, 3), 0, Min(10, winSec - 1))
  IN [winSec |-> winSec, ovlSec |-> ovlSec,
      winSamples |-> winSec * TARGET_SR,
      ovlSamples |-> ovlSec * TARGET_SR]

BlockEnd(b) == b.startSample + Len(b.pcm)

\* Mutant: the copy starts at the beginning of the block.
SetSub_FromBlockStart(out, src, srcOffset, n, dstOffset) ==
  [k \in 1..Len(out) |->
     IF k - 1 >= dstOffset /\ k - 1 < dstOffset + n
       THEN src[(k - 1 - dstOffset) + 1]
       ELSE out[k]]

\* out.set(src.subarray(srcOffset, srcOffset + n), dstOffset)
SetSub(out, src, srcOffset, n, dstOffset) ==
  [k \in 1..Len(out) |->
     IF k - 1 >= dstOffset /\ k - 1 < dstOffset + n
       THEN src[srcOffset + (k - 1 - dstOffset) + 1]
       ELSE out[k]]

Zeros(n) == [k \in 1..n |-> ZeroSample]

\* ----------------------------------------------------- timeline buffer
\* The copy loop of readWindowFromBlocks (lines 478-499).
RECURSIVE WindowCopy(_, _, _, _, _, _)
WindowCopy(blocks, i, out, outPos, startSample, endSample) ==
  IF ~(outPos < Len(out) /\ i <= Len(blocks)) THEN out
  ELSE LET b == blocks[i]
           b0 == b.startSample
           b1 == BlockEnd(b)
       IN IF b1 <= startSample
            THEN WindowCopy(blocks, i + 1, out, outPos, startSample, endSample)
          ELSE IF b0 >= endSample THEN out
          ELSE LET copyStart == Max(b0, startSample)
                   copyEnd == Min(b1, endSample)
                   n == copyEnd - copyStart
               IN WindowCopy(blocks, i + 1,
                             SetSub(out, b.pcm, copyStart - b0, n,
                                    copyStart - startSample),
                             outPos + n, startSample, endSample)

readWindowFromBlocks(blocks, winSamples) ==
  IF Len(blocks) = 0 THEN NoObj
  ELSE LET earliest == blocks[1].startSample
           latestEnd == BlockEnd(blocks[Len(blocks)])
       IN IF (latestEnd - earliest) < winSamples THEN NoObj
          ELSE << [audio |-> WindowCopy(blocks, 1, Zeros(winSamples), 0,
                                        earliest, earliest + winSamples),
                   startSample |-> earliest,
                   endSample |-> earliest + winSamples] >>

\* The copy loop of readRangeFromBlocks (lines 793-808).
RECURSIVE RangeCopy(_, _, _, _, _, _)
RangeCopy(blocks, i, out, filled, startSample, endSample) ==
  IF i > Len(blocks) THEN out
  ELSE LET b == blocks[i]
           b0 == b.startSample
           b1 == BlockEnd(b)
       IN IF b1 <= startSample
            THEN RangeCopy(blocks, i + 1, out, filled, startSample, endSample)
          ELSE IF b0 >= endSample THEN out
          ELSE LET copyStart == Max(b0, startSample)
                   copyEnd == Min(b1, endSample)
                   len == copyEnd - copyStart
                   out2 == SetSub(out, b.pcm, copyStart - b0, len,
                                  copyStart - startSample)
               IN IF filled + len >= Len(out) THEN out2
                  ELSE RangeCopy(blocks, i + 1, out2, filled + len,
                                 startSample, endSample)

readRangeFromBlocks(blocks, startSample, endSample) ==
  LET n == endSample - startSample
  IN IF n <= 0 THEN NoObj
     ELSE << RangeCopy(blocks, 1, Zeros(n), 0, startSample, endSample) >>

\* consumeToKeepOverlap on the pair (pcmBlocks, totalBufferedSamples) of m.
RECURSIVE DropWhole(_, _)
DropWhole(m, keepStartSample) ==
  IF Len(m.pcmBlocks) > 0 /\ BlockEnd(m.pcmBlocks[1]) <= keepStartSample
    THEN DropWhole([m EXCEPT !.pcmBlocks = Tail(@),
                             !.totalBufferedSamples =
                                @ - Len(m.pcmBlocks[1].pcm)],
                   keepStartSample)
    ELSE m

\* Mutant: whole blocks are dropped, the block straddling keepStartSample is
\* not cut.
consumeToKeepOverlap_NoCut(m, keepStartSample) == DropWhole(m, keepStartSample)

\* Mutant: the straddling block is cut but keeps its start sample.
consumeToKeepOverlap_StartKept(m, keepStartSample) ==
  LET d == DropWhole(m, keepStartSample)
  IN IF Len(d.pcmBlocks) = 0 THEN d
     ELSE LET b0 == d.pcmBlocks[1]
          IN IF b0.startSample < keepStartSample
               THEN LET cut == keepStartSample - b0.startSample
                    IN [d EXCEPT
                          !.pcmBlocks[1].pcm =
                             SubSeq(b0.pcm, cut + 1, Len(b0.pcm)),
                          !.totalBufferedSamples = @ - cut]
               ELSE d

consumeToKeepOverlap(m, keepStartSample) ==
  LET d == DropWhole(m, keepStartSample)
  IN IF Len(d.pcmBlocks) = 0 THEN d
     ELSE LET b0 == d.pcmBlocks[1]
          IN IF b0.startSample < keepStartSample
               THEN LET cut == keepStartSample - b0.startSample
                    IN [d EXCEPT
                          !.pcmBlocks[1] =
                             [startSample |-> keepStartSample,
                              pcm |-> SubSeq(b0.pcm, cut + 1, Len(b0.pcm))],
                          !.totalBufferedSamples = @ - cut]
               ELSE d

\* ---------------------------------------------------------- main thread
\* The main thread's globals as one record; outbox collects what the handler
\* posts to the worker.
Main ==
  [displayStream |-> displayStream, workletNode |-> workletNode,
   stopPc |-> stopPc, btnTranscribeDisabled |-> btnTranscribeDisabled,
   captureStartEpochMs |-> captureStartEpochMs,
   firstSampleStart |-> firstSampleStart,
   pcmBlocks |-> pcmBlocks, totalBufferedSamples |-> totalBufferedSamples,
   asrReady |-> asrReady, inflightAsr |-> inflightAsr, nextId |-> nextId,
   transcriptWords |-> transcriptWords,
   transcriptSegments |-> transcriptSegments,
   dispatched |-> dispatched, dispatchClock |-> dispatchClock,
   VAD |-> VAD, spkReady |-> spkReady, speakerClusters |-> speakerClusters,
   nextSpeakerId |-> nextSpeakerId, nextSegId |-> nextSegId,
   lastFailed |-> lastFailed, spkFailed |-> spkFailed,
   discarded |-> discarded,
   outbox |-> <<>>]

SetMain(m) ==
  /\ displayStream' = m.displayStream
  /\ workletNode' = m.workletNode
  /\ stopPc' = m.stopPc
  /\ btnTranscribeDisabled' = m.btnTranscribeDisabled
  /\ captureStartEpochMs' = m.captureStartEpochMs
  /\ firstSampleStart' = m.firstSampleStart
  /\ pcmBlocks' = m.pcmBlocks
  /\ totalBufferedSamples' = m.totalBufferedSamples
  /\ asrReady' = m.asrReady
  /\ inflightAsr' = m.inflightAsr
  /\ nextId' = m.nextId
  /\ transcriptWords' = m.transcriptWords
  /\ transcriptSegments' = m.transcriptSegments
  /\ dispatched' = m.dispatched
  /\ dispatchClock' = m.dispatchClock
  /\ VAD' = m.VAD
  /\ spkReady' = m.spkReady
  /\ speakerClusters' = m.speakerClusters
  /\ nextSpeakerId' = m.nextSpeakerId
  /\ nextSegId' = m.nextSegId
  /\ lastFailed' = m.lastFailed
  /\ spkFailed' = m.spkFailed
  /\ discarded' = m.discarded
  /\ toWorker' = toWorker \o m.outbox

\* Mutant: the first buffered sample is not subtracted.
sampleToEpochMs_NoAnchor(m, sampleIndex) ==
  IF m.captureStartEpochMs = null \/ m.firstSampleStart = null THEN null
  ELSE m.captureStartEpochMs + (sampleIndex * 1000) \div TARGET_SR

\* Convert absolute sample index -> epoch ms; null while an anchor is unset.
sampleToEpochMs(m, sampleIndex) ==
  IF m.captureStartEpochMs = null \/ m.firstSampleStart = null THEN null
  ELSE LET relSamples == sampleIndex - m.firstSampleStart
           relMs == (relSamples * 1000) \div TARGET_SR
       IN m.captureStartEpochMs + relMs

\* --------------------------------------------------------- diarization
\* Embeddings and centroids are vectors of fixed-point numbers: One stands
\* for 1.0, so similarities and the threshold are in hundredths.  The float
\* operations of the code are kept in their order, each rounded to the
\* nearest hundredth.
One == 10 * 10

\* a / b rounded to the nearest integer (b > 0).
RoundDiv(a, b) == (2 * a + b) \div (2 * b)

RECURSIVE SumSeq(_)
SumSeq(q) == IF q = <<>> THEN 0 ELSE Head(q) + SumSeq(Tail(q))

dot(a, b) ==
  LET n == Min(Len(a), Len(b))
  IN RoundDiv(SumSeq([i \in 1..n |-> a[i] * b[i]]), One)

\* Math.sqrt on fixed-point arguments.
Sqrt(x) == CHOOSE r \in 0..(2 * One) : r * r <= x /\ (r + 1) * (r + 1) > x

l2Normalize(v) ==
  LET s == RoundDiv(SumSeq([i \in 1..Len(v) |-> v[i] * v[i]]), One)
      r == Sqrt(s * One)
      n == IF r = 0 THEN One ELSE r
  IN [i \in 1..Len(v) |-> RoundDiv(v[i] * One, n)]

\* Mutant: among equal similarities the last cluster wins.
RECURSIVE BestCluster_LastAmongEquals(_, _, _, _)
BestCluster_LastAmongEquals(clusters, vec, bestId, bestSim) ==
  IF clusters = <<>> THEN [id |-> bestId, sim |-> bestSim]
  ELSE LET c == Head(clusters)
           sim == RoundDiv(SumSeq([i \in 1..Min(Len(vec), Len(c.centroid)) |->
                                     vec[i] * c.centroid[i]]), One)
       IN IF sim >= bestSim
            THEN BestCluster_LastAmongEquals(Tail(clusters), vec, c.id, sim)
            ELSE BestCluster_LastAmongEquals(Tail(clusters), vec, bestId,
                                             bestSim)

\* The loop of assignToSpeakerCluster over the clusters (lines 855-858).
RECURSIVE BestCluster(_, _, _, _)
BestCluster(clusters, vec, bestId, bestSim) ==
  IF clusters = <<>> THEN [id |-> bestId, sim |-> bestSim]
  ELSE LET c == Head(clusters)
           sim == dot(vec, c.centroid)
       IN IF sim > bestSim
            THEN BestCluster(Tail(clusters), vec, c.id, sim)
            ELSE BestCluster(Tail(clusters), vec, bestId, bestSim)

\* Array.prototype.findIndex for an id, 1-based; 0 when there is none.
FindId(q, id) ==
  IF \E k \in 1..Len(q) : q[k].id = id
    THEN CHOOSE k \in 1..Len(q) :
           q[k].id = id /\ \A j \in 1..(k - 1) : q[j].id # id
    ELSE 0

\* Mutant: the id of a new cluster comes from the counter shared by all runs.
freshSpeakerId_Shared(m) == nextSpeakerId

\* const id = nextSpeakerId++ (line 862): the id the next new cluster gets.
freshSpeakerId(m) == m.nextSpeakerId

\* clamp(Number(spkThreshIn.value) || 0.78, 0.5, 0.95), in hundredths.
spkThreshold == clamp(NumberOr(spkThreshIn, 78), 50, 95)

\* Mutant: a vector that joins a cluster moves its centroid and leaves its
\* count alone.
assignToSpeakerCluster_CountKept(m, vec, threshold) ==
  LET best == BestCluster(m.speakerClusters, vec, null, 0 - One)
  IN IF best.id = null \/ best.sim < threshold
       THEN [m |-> [m EXCEPT
                      !.nextSpeakerId = @ + 1,
                      !.speakerClusters =
                         Append(@, [id |-> freshSpeakerId(m), centroid |-> vec,
                                    count |-> 1])],
             id |-> freshSpeakerId(m)]
       ELSE LET k == FindId(m.speakerClusters, best.id)
                cl == m.speakerClusters[k]
                count == cl.count + 1
                moved == [i \in 1..Len(cl.centroid) |->
                            cl.centroid[i]
                              + RoundDiv(vec[i] - cl.centroid[i], count)]
            IN [m |-> [m EXCEPT !.speakerClusters[k] =
                         [id |-> cl.id, centroid |-> l2Normalize(moved),
                          count |-> cl.count]],
                id |-> best.id]

\* Returns the main-thread state after the call and the id it returns.
assignToSpeakerCluster(m, vec, threshold) ==
  LET best == BestCluster(m.speakerClusters, vec, null, 0 - One)
  IN IF best.id = null \/ best.sim < threshold
       THEN [m |-> [m EXCEPT
                      !.nextSpeakerId = @ + 1,
                      !.speakerClusters =
                         Append(@, [id |-> freshSpeakerId(m), centroid |-> vec,
                                    count |-> 1])],
             id |-> freshSpeakerId(m)]
       ELSE LET k == FindId(m.speakerClusters, best.id)
                cl == m.speakerClusters[k]
                count == cl.count + 1
                moved == [i \in 1..Len(cl.centroid) |->
                            cl.centroid[i]
                              + RoundDiv(vec[i] - cl.centroid[i], count)]
            IN [m |-> [m EXCEPT !.speakerClusters[k] =
                         [id |-> cl.id, centroid |-> l2Normalize(moved),
                          count |-> count]],
                id |-> best.id]

\* Mutant: a segment that overlaps as much as the best so far replaces it.
winsOverlap_OrEqual(overlap, bestOverlap) == overlap >= bestOverlap

\* overlap > bestOverlap (line 912).
winsOverlap(overlap, bestOverlap) == overlap > bestOverlap

\* The loop of speakerForTimeRange (lines 908-916); a speakerId that is
\* null or 0 is falsy.
RECURSIVE BestSegment(_, _, _, _, _)
BestSegment(segs, t0, t1, best, bestOverlap) ==
  IF segs = <<>> THEN best
  ELSE LET sg == Head(segs)
           overlap == Min(sg.t1, t1) - Max(sg.t0, t0)
       IN IF sg.speakerId = null \/ sg.speakerId = 0
            THEN BestSegment(Tail(segs), t0, t1, best, bestOverlap)
          ELSE IF sg.t1 <= t0 \/ sg.t0 >= t1
            THEN BestSegment(Tail(segs), t0, t1, best, bestOverlap)
          ELSE IF winsOverlap(overlap, bestOverlap)
            THEN BestSegment(Tail(segs), t0, t1, sg.speakerId, overlap)
          ELSE BestSegment(Tail(segs), t0, t1, best, bestOverlap)

speakerForTimeRange(m, t0, t1) == BestSegment(m.VAD.segments, t0, t1, null, 0)

assignSpeakersToWords(m, words) ==
  IF ~m.VAD.enabled THEN words
  ELSE IF m.VAD.segments = <<>> THEN words
  ELSE [i \in 1..Len(words) |->
          LET spk == speakerForTimeRange(m, words[i].t0, words[i].t1)
          IN IF spk # null THEN [words[i] EXCEPT !.speakerId = spk]
             ELSE words[i]]

\* Mutant: only the words that intersect the segment are kept.
Relabel_OnlyIntersecting(words, seg, assigned) ==
  LET Meets(w) == ~(w.t1 <= seg.t0 \/ w.t0 >= seg.t1)
      met == SelectSeq(words, Meets)
  IN [i \in 1..Len(met) |-> [met[i] EXCEPT !.speakerId = assigned]]

\* The word loop of handleSpeakerEmbedding (lines 842-845).
Relabel(words, seg, assigned) ==
  [i \in 1..Len(words) |->
     IF words[i].t1 <= seg.t0 \/ words[i].t0 >= seg.t1 THEN words[i]
     ELSE [words[i] EXCEPT !.speakerId = assigned]]

\* Mutant: the embedding is taken for the latest segment whatever its id.
seenSegment_Latest(m, id) == Len(m.VAD.segments)

\* VAD.segments.find(s => s.id === id) (line 829): the index of the segment,
\* 0 if there is none.
seenSegment(m, id) == FindId(m.VAD.segments, id)

\* The words kept in a transcript segment are the objects of
\* transcriptWords, so the loop changes them there too.
handleSpeakerEmbedding(m, msg) ==
  LET k == seenSegment(m, msg.id)
  IN IF k = 0 THEN m
     ELSE LET threshold == spkThreshold
              a == assignToSpeakerCluster(m, msg.embedding, threshold)
              seg == m.VAD.segments[k]
          IN [a.m EXCEPT
                !.VAD.segments[k].speakerId = a.id,
                !.transcriptWords = Relabel(@, seg, a.id),
                !.transcriptSegments =
                   [i \in 1..Len(@) |->
                      [@[i] EXCEPT !.words = Relabel(@, seg, a.id)]]]

requestSpeakerEmbedding(m, seg) ==
  IF ~m.VAD.enabled THEN m
  ELSE IF ~m.spkReady THEN m
  ELSE [m EXCEPT !.outbox = Append(@, [type |-> "embed", id |-> seg.id,
                                       audio |-> seg.pcm])]

\* Mutant: the minimum duration is asked of a flushed segment too.
tooShort_EvenForced(m, force, durMs) == durMs < m.VAD.minSegMs

\* !force && durMs < VAD.minSegMs (line 756).
tooShort(m, force, durMs) == ~force /\ durMs < m.VAD.minSegMs

\* Mutant: the first chunk below the threshold ends the speech.
hangoverElapsed_AtOnce(m, dateNow) == dateNow >= m.VAD.lastSpeechMs

\* (now - VAD.lastSpeechMs) > VAD.hangoverMs (line 731).
hangoverElapsed(m, dateNow) ==
  (dateNow - m.VAD.lastSpeechMs) > m.VAD.hangoverMs

\* Mutant: the segment is closed without being kept.
finalizeVadSegmentIfAny_Drop(m, force) ==
  [m EXCEPT !.VAD.currentSeg = NoObj]

\* The id of a new segment is Date.now() + Math.random(): a number no other
\* segment has, here the next of a counter.
finalizeVadSegmentIfAny(m, force) ==
  IF m.VAD.currentSeg = NoObj THEN m
  ELSE LET seg == m.VAD.currentSeg[1]
           durMs == ((seg.endSample - seg.startSample) * 1000) \div TARGET_SR
           dropped == [m EXCEPT !.VAD.currentSeg = NoObj]
       IN IF tooShort(m, force, durMs) THEN dropped
          ELSE LET pcm == readRangeFromBlocks(m.pcmBlocks, seg.startSample,
                                              seg.endSample)
               IN IF pcm = NoObj THEN dropped
                  ELSE LET new == [id |-> m.nextSegId,
                                   t0 |-> sampleToEpochMs(m, seg.startSample),
                                   t1 |-> sampleToEpochMs(m, seg.endSample),
                                   startSample |-> seg.startSample,
                                   endSample |-> seg.endSample,
                                   pcm |-> pcm[1],
                                   speakerId |-> null]
                           pushed == [m EXCEPT
                                        !.VAD.segments = Append(@, new),
                                        !.nextSegId = @ + 1]
                           asked == requestSpeakerEmbedding(pushed, new)
                       IN [asked EXCEPT !.VAD.currentSeg = NoObj]

\* dateNow is what Date.now() returns at line 710; rms is in thousandths.
vadObserveChunk(m, startSample, length, rms, dateNow) ==
  LET isSpeech == rms >= m.VAD.rmsThreshold
      observed ==
        IF isSpeech
          THEN LET heard == [m EXCEPT !.VAD.lastSpeechMs = dateNow]
               IN IF ~heard.VAD.speechOn
                    THEN [heard EXCEPT
                            !.VAD.speechOn = TRUE,
                            !.VAD.currentSeg =
                               << [startSample |-> startSample,
                                   endSample |-> startSample + length] >>]
                  ELSE IF heard.VAD.currentSeg # NoObj
                    THEN [heard EXCEPT !.VAD.currentSeg[1].endSample =
                                          startSample + length]
                  ELSE heard
        ELSE IF m.VAD.speechOn /\ hangoverElapsed(m, dateNow)
          THEN [finalizeVadSegmentIfAny(m, FALSE) EXCEPT
                  !.VAD.speechOn = FALSE, !.VAD.currentSeg = NoObj]
        ELSE m
      segMs == ((observed.VAD.currentSeg[1].endSample
                   - observed.VAD.currentSeg[1].startSample) * 1000)
                 \div TARGET_SR
  IN IF observed.VAD.speechOn /\ observed.VAD.currentSeg # NoObj
          /\ segMs > observed.VAD.maxSegMs
       THEN [finalizeVadSegmentIfAny(observed, FALSE) EXCEPT
               !.VAD.speechOn = FALSE, !.VAD.currentSeg = NoObj]
       ELSE observed

\* Mutant: nothing of the dispatched window is kept.
keepStartOf_NoOverlap(win, p) == win.endSample

\* Keep overlap region (line 554).
keepStartOf(win, p) == win.endSample - p.ovlSamples

maybeTranscribe(m) ==
  IF ~m.displayStream THEN m
  ELSE IF ~m.asrReady THEN m
  ELSE IF m.inflightAsr # NoObj THEN m
  ELSE LET p == getWindowParams
           r == readWindowFromBlocks(m.pcmBlocks, p.winSamples)
       IN IF r = NoObj THEN [m EXCEPT !.btnTranscribeDisabled = TRUE]
          ELSE LET win == r[1]
                   id == m.nextId
                   sent == [m EXCEPT
                      !.nextId = id + 1,
                      !.inflightAsr = << [id |-> id,
                                          winStartSample |-> win.startSample,
                                          winEndSample |-> win.endSample] >>,
                      !.outbox = Append(@, [type |-> "transcribe", id |-> id]),
                      !.dispatched = Append(@, [id |-> id,
                                                startSample |-> win.startSample,
                                                endSample |-> win.endSample,
                                                audio |-> win.audio,
                                                emitted |-> FALSE]),
                      !.dispatchClock = <<m.captureStartEpochMs,
                                          m.firstSampleStart>>,
                      !.lastFailed = null]
               IN consumeToKeepOverlap(sent, keepStartOf(win, p))

\* String.prototype.trim on a text kept as a sequence of characters.
RECURSIVE TrimLeft(_)
TrimLeft(t) == IF Len(t) > 0 /\ Head(t) = " " THEN TrimLeft(Tail(t)) ELSE t
RECURSIVE TrimRight(_)
TrimRight(t) ==
  IF Len(t) > 0 /\ t[Len(t)] = " " THEN TrimRight(SubSeq(t, 1, Len(t) - 1))
  ELSE t
Trim(t) == TrimRight(TrimLeft(t))

\* Math.floor(sec * TARGET_SR) for sec given in half seconds.
FloorSamples(halfSec) == (halfSec * TARGET_SR) \div 2

\* The word loop of handleAsrResult (lines 608-623).
RECURSIVE WordsOfChunks(_, _, _)
WordsOfChunks(m, winStart, chunks) ==
  IF chunks = <<>> THEN <<>>
  ELSE LET c == Head(chunks)
           rest == WordsOfChunks(m, winStart, Tail(chunks))
           ts == c.timestamp
       IN IF Len(ts) < 2 THEN rest
          ELSE LET startSec == IF ts[1] = null THEN 0 ELSE ts[1]
                   endSec == IF ts[2] = null THEN startSec ELSE ts[2]
                   w0 == winStart + FloorSamples(startSec)
                   w1 == winStart + FloorSamples(endSec)
                   e0 == sampleToEpochMs(m, w0)
                   e1 == sampleToEpochMs(m, w1)
                   wText == Trim(c.text)
               IN IF e0 = null \/ e1 = null THEN rest
                  ELSE IF wText = <<>> THEN rest
                  ELSE <<[t0 |-> e0, t1 |-> e1, text |-> wText,
                          speakerId |-> null]>> \o rest

\* History: the window of job id has given a transcript segment.
Emitted(d, id) ==
  [i \in 1..Len(d) |-> IF d[i].id = id THEN [d[i] EXCEPT !.emitted = TRUE]
                       ELSE d[i]]

handleAsrResult(m, msg) ==
  IF m.inflightAsr = NoObj \/ m.inflightAsr[1].id # msg.id THEN m
  ELSE LET winStart == m.inflightAsr[1].winStartSample
           winEnd == m.inflightAsr[1].winEndSample
           freed == [m EXCEPT !.inflightAsr = NoObj]
           t0Epoch == sampleToEpochMs(freed, winStart)
           t1Epoch == sampleToEpochMs(freed, winEnd)
       IN IF msg.text = <<>>
            THEN IF autoRunSel = "on" THEN maybeTranscribe(freed) ELSE freed
          ELSE LET timed == WordsOfChunks(freed, winStart, msg.chunks)
                   words == IF freed.VAD.enabled
                              THEN assignSpeakersToWords(freed, timed)
                              ELSE timed
                   added == [freed EXCEPT
                      !.transcriptWords = @ \o words,
                      !.transcriptSegments =
                         Append(@, [t0 |-> t0Epoch, t1 |-> t1Epoch,
                                    text |-> Trim(msg.text),
                                    words |-> words]),
                      !.dispatched = Emitted(@, msg.id)]
               IN IF autoRunSel = "on" THEN maybeTranscribe(added)
                  ELSE [added EXCEPT !.btnTranscribeDisabled =
                          (readWindowFromBlocks(added.pcmBlocks,
                                                getWindowParams.winSamples)
                             = NoObj)]

\* worker.onmessage, type asr_error
handleAsrError(m, msg) ==
  IF m.inflightAsr # NoObj /\ m.inflightAsr[1].id = msg.id
    THEN [m EXCEPT !.inflightAsr = NoObj,
                   !.lastFailed = m.inflightAsr[1].winEndSample]
    ELSE m

\* Mutant: the reset keeps the clusters and continues the speaker ids.
clearAll_KeepSpeakers(m) ==
  [m EXCEPT !.pcmBlocks = <<>>, !.totalBufferedSamples = 0,
            !.inflightAsr = NoObj,
            !.captureStartEpochMs = null, !.firstSampleStart = null,
            !.transcriptWords = <<>>, !.transcriptSegments = <<>>,
            !.VAD.speechOn = FALSE, !.VAD.currentSeg = NoObj,
            !.VAD.segments = <<>>,
            !.dispatched = <<>>, !.lastFailed = null]

\* clearAll (lines 224-248).
clearAll(m) ==
  [m EXCEPT !.pcmBlocks = <<>>, !.totalBufferedSamples = 0,
            !.inflightAsr = NoObj,
            !.captureStartEpochMs = null, !.firstSampleStart = null,
            !.transcriptWords = <<>>, !.transcriptSegments = <<>>,
            !.VAD.speechOn = FALSE, !.VAD.currentSeg = NoObj,
            !.VAD.segments = <<>>,
            !.speakerClusters = <<>>, !.nextSpeakerId = 1,
            !.dispatched = <<>>, !.lastFailed = null]

\* Mutant: a chunk that arrives while a job is in flight is dropped.
appendBlock_UnlessBusy(m, startSample, pcm) ==
  IF m.inflightAsr # NoObj THEN m
  ELSE [m EXCEPT !.pcmBlocks = Append(@, [startSample |-> startSample,
                                          pcm |-> pcm]),
                 !.totalBufferedSamples = @ + Len(pcm)]

\* pcmBlocks.push and the counter (lines 439-440).
appendBlock(m, startSample, pcm) ==
  [m EXCEPT !.pcmBlocks = Append(@, [startSample |-> startSample,
                                     pcm |-> pcm]),
            !.totalBufferedSamples = @ + Len(pcm)]

\* workletNode.port.onmessage for a chunk with the given rms, handled when
\* Date.now() is dateNow.
onChunkRms(m, startSample, pcm, rms, dateNow) ==
  IF Len(pcm) = 0 THEN m
  ELSE LET anchored == IF m.firstSampleStart = null
                         THEN [m EXCEPT !.firstSampleStart = startSample]
                         ELSE m
           pushed == appendBlock(anchored, startSample, pcm)
           seen == IF pushed.VAD.enabled
                     THEN vadObserveChunk(pushed, startSample, Len(pcm), rms,
                                          dateNow)
                     ELSE pushed
       IN IF autoRunSel = "on" THEN maybeTranscribe(seen)
          ELSE [seen EXCEPT !.btnTranscribeDisabled = FALSE]

\* The same handler where the VAD is off: rms and the clock are not read.
onChunk(m, startSample, pcm) == onChunkRms(m, startSample, pcm, 0, now)

manualTranscribe(m) ==
  maybeTranscribe([m EXCEPT !.btnTranscribeDisabled = TRUE])

\* startCapture, the path on which every await succeeds (lines 253-291);
\* dateNow is what Date.now() returns at line 282.
startCapture(m, dateNow) ==
  [m EXCEPT !.asrReady = TRUE, !.displayStream = TRUE,
            !.VAD.enabled = (diarizeSel = "on"),
            !.spkReady = IF diarizeSel = "on" THEN TRUE ELSE @,
            !.captureStartEpochMs = dateNow, !.firstSampleStart = null,
            !.workletNode = TRUE,
            !.btnTranscribeDisabled = (autoRunSel = "on")]

\* stopCapture up to its await audioCtx.close() (lines 304-313).
stopCaptureDetach(m) == [m EXCEPT !.workletNode = FALSE, !.stopPc = "closing"]

\* Mutant: the stop leaves the open VAD segment as it is.
stopCaptureFinish_NoFlush(m) ==
  [m EXCEPT !.displayStream = FALSE, !.btnTranscribeDisabled = FALSE,
            !.stopPc = "idle"]

\* stopCapture after the await (lines 314-332).
stopCaptureFinish(m) ==
  LET flushed == IF m.VAD.enabled THEN finalizeVadSegmentIfAny(m, TRUE)
                 ELSE m
  IN [flushed EXCEPT !.displayStream = FALSE,
                     !.btnTranscribeDisabled = FALSE, !.stopPc = "idle"]

\* -------------------------------------------------------------- worker
\* What the recognition engine may return for a window: empty text; text
\* without chunks (timestamps off); text with word chunks whose timestamps
\* are in half seconds relative to the window (null: an open end).
AsrOutputs ==
  { [text |-> <<>>, chunks |-> <<>>],
    [text |-> <<"a">>, chunks |-> <<>>],
    [text |-> <<"a", " ", "b">>,
     chunks |-> << [text |-> <<" ", "a">>, timestamp |-> <<1, 3>>],
                   [text |-> <<" ">>, timestamp |-> <<3, 4>>],
                   [text |-> <<" ", "b">>, timestamp |-> <<4, null>>] >>] }

Reply(type, id, out) ==
  [type |-> type, id |-> id, text |-> out.text, chunks |-> out.chunks]
NoOutput == [text |-> <<>>, chunks |-> <<>>]

SpkReply(type, id, vec) == [type |-> type, id |-> id, embedding |-> vec]

\* self.onmessage of the worker for a transcribe or an embed message, up to
\* the await of the engine (transcribe, lines 93-109; embed, lines 125-137).
\* The handler is async: a message is taken while another call is awaited.
WorkerReceive ==
  /\ toWorker # <<>>
  /\ Head(toWorker).type \in {"transcribe", "embed"}
  /\ LET msg == Head(toWorker)
     IN /\ toWorker' = Tail(toWorker)
        /\ IF msg.type = "embed"
             THEN IF spkBusy
                    THEN /\ toMain' = Append(toMain,
                                             SpkReply("spk_busy", msg.id, <<>>))
                         /\ UNCHANGED workerVars
                    ELSE /\ spkBusy' = TRUE
                         /\ spkJob' = <<msg.id>>
                         /\ UNCHANGED <<asrBusy, asrJob, toMain>>
             ELSE IF asrBusy
                    THEN /\ toMain' = Append(toMain,
                                        Reply("asr_busy", msg.id, NoOutput))
                         /\ UNCHANGED workerVars
                    ELSE /\ asrBusy' = TRUE
                         /\ asrJob' = <<msg.id>>
                         /\ UNCHANGED <<spkBusy, spkJob, toMain>>
  /\ UNCHANGED <<uiVars, inRate, sumVars, loadVars, now, mainVars, workletVars, histVars>>

\* The embedder resolves: embed posts spk_embed with the pooled, normalized
\* vector (lines 139-146, 149).
EmbedResult(vec) ==
  /\ spkJob # <<>>
  /\ toMain' = Append(toMain, SpkReply("spk_embed", spkJob[1], vec))
  /\ spkBusy' = FALSE
  /\ spkJob' = <<>>
  /\ UNCHANGED <<uiVars, inRate, sumVars, loadVars, now, mainVars, workletVars, toWorker, asrBusy,
                 asrJob, histVars>>

\* The embedder rejects: embed posts spk_error (lines 147-149).
EmbedError ==
  /\ spkJob # <<>>
  /\ toMain' = Append(toMain, SpkReply("spk_error", spkJob[1], <<>>))
  /\ spkBusy' = FALSE
  /\ spkJob' = <<>>
  /\ UNCHANGED <<uiVars, inRate, sumVars, loadVars, now, mainVars, workletVars, toWorker, asrBusy,
                 asrJob, histVars>>

\* The engine resolves: transcribe posts asr_result (lines 111-115, 119).
EngineResult(out) ==
  /\ asrJob # <<>>
  /\ toMain' = Append(toMain, Reply("asr_result", asrJob[1], out))
  /\ asrBusy' = FALSE
  /\ asrJob' = <<>>
  /\ UNCHANGED <<uiVars, inRate, sumVars, loadVars, now, mainVars, workletVars, toWorker, spkBusy,
                 spkJob, histVars>>

\* The engine rejects: transcribe posts asr_error (lines 116-119).
EngineError ==
  /\ asrJob # <<>>
  /\ toMain' = Append(toMain, Reply("asr_error", asrJob[1], NoOutput))
  /\ asrBusy' = FALSE
  /\ asrJob' = <<>>
  /\ UNCHANGED <<uiVars, inRate, sumVars, loadVars, now, mainVars, workletVars, toWorker, spkBusy,
                 spkJob, histVars>>

\* ------------------------------------------------------------- actions
\* Mutant: a failed embedding is replaced by a fixed vector.
handleSpeakerError_Fallback(m, msg) ==
  [handleSpeakerEmbedding(m, [msg EXCEPT !.embedding = <<One, 0>>])
     EXCEPT !.spkFailed = @ \cup {msg.id}]

\* The spk_error branch (lines 377-380) logs and sets the pill; the id of
\* the failed request is kept as history.
handleSpeakerError(m, msg) == [m EXCEPT !.spkFailed = @ \cup {msg.id}]

\* The reply names a job or a segment the main thread does not hold.
UnknownId(m, msg) ==
  \/ /\ msg.type \in {"asr_result", "asr_error"}
     /\ (m.inflightAsr = NoObj \/ m.inflightAsr[1].id # msg.id)
  \/ /\ msg.type = "spk_embed"
     /\ FindId(m.VAD.segments, msg.id) = 0

\* worker.onmessage on the main thread (lines 345-381); a type without a
\* branch (asr_busy, spk_busy) changes nothing, and asr_status and
\* spk_status only change what is displayed.
onWorkerMessage(m, msg) ==
  IF msg.type = "asr_ready" THEN [m EXCEPT !.asrReady = TRUE]
  ELSE IF msg.type = "spk_ready" THEN [m EXCEPT !.spkReady = TRUE]
  ELSE IF msg.type = "asr_result" THEN handleAsrResult(m, msg)
  ELSE IF msg.type = "asr_error" THEN handleAsrError(m, msg)
  ELSE IF msg.type = "spk_embed" THEN handleSpeakerEmbedding(m, msg)
  ELSE IF msg.type = "spk_error" THEN handleSpeakerError(m, msg)
  ELSE m

MainReceive ==
  /\ toMain # <<>>
  /\ SetMain(onWorkerMessage(Main, Head(toMain)))
  /\ toMain' = Tail(toMain)
  /\ UNCHANGED <<uiVars, inRate, sumVars, loadVars, now, workletVars, workerVars, histVars>>

\* The same handler, with the types of the replies that named an unknown id
\* kept as history.
MainReceiveLogged ==
  /\ toMain # <<>>
  /\ LET msg == Head(toMain)
         handled == onWorkerMessage(Main, msg)
     IN SetMain(IF UnknownId(Main, msg)
                  THEN [handled EXCEPT !.discarded = @ \cup {msg.type}]
                  ELSE handled)
  /\ toMain' = Tail(toMain)
  /\ UNCHANGED <<uiVars, inRate, sumVars, loadVars, now, workletVars, workerVars, histVars>>

\* A chunk posted by the capture processor reaches the main thread.
Chunk(len, limit) ==
  /\ workletNode
  /\ delivered + len <= limit
  /\ SetMain(onChunk(Main, outSampleCursor,
                     [k \in 1..len |-> Sample(gen, outSampleCursor + k - 1)]))
  /\ outSampleCursor' = outSampleCursor + len
  /\ delivered' = delivered + len
  /\ UNCHANGED <<uiVars, inRate, sumVars, loadVars, now, gen, workerVars, toMain, histVars>>

ChunkArrives(len) == Chunk(len, MaxSamples)

\* The duration of len samples in ms.
ChunkMs(len) == (len * 1000) \div TARGET_SR

\* History of the speech run the chunks form, in the time of the audio:
\* from the first chunk at or above the threshold met with the VAD idle, over
\* every later one, until the audio has stayed below the threshold for more
\* than hangoverMs.  segs0 is the number of segments when the run began.
RunAfter(startSample, len, rms) ==
  IF ~VAD.enabled THEN vadRun
  ELSE IF rms >= VAD.rmsThreshold
    THEN IF vadRun # NoObj /\ vadRun[1].open
           THEN << [vadRun[1] EXCEPT !.last = startSample + len] >>
         ELSE IF ~VAD.speechOn
           THEN << [first |-> startSample, last |-> startSample + len,
                    segs0 |-> Len(VAD.segments), open |-> TRUE] >>
         ELSE NoObj
  ELSE IF vadRun # NoObj /\ vadRun[1].open
          /\ ChunkMs(startSample + len - vadRun[1].last) > VAD.hangoverMs
    THEN << [vadRun[1] EXCEPT !.open = FALSE] >>
  ELSE vadRun

\* A chunk with the given rms reaches the main thread while the VAD may be
\* on; elapsed is the time in ms that passed on the wall clock since the
\* handler ran last: the chunk's duration when the main thread keeps up with
\* the audio, less when it handles chunks that queued up while it was busy.
ChunkRms(len, rms, elapsed, limit) ==
  /\ workletNode
  /\ delivered + len <= limit
  /\ now' = now + elapsed
  /\ SetMain(onChunkRms(Main, outSampleCursor,
                        [k \in 1..len |-> Sample(gen, outSampleCursor + k - 1)],
                        rms, now'))
  /\ outSampleCursor' = outSampleCursor + len
  /\ delivered' = delivered + len
  /\ vadRun' = RunAfter(outSampleCursor, len, rms)
  /\ chunkRms' = rms
  /\ UNCHANGED <<uiVars, inRate, sumVars, loadVars, gen, workerVars, toMain, lastRead, converted,
                 clusterLog, replay>>

\* btnStart is enabled before the first start and after a completed stop; a
\* new AudioWorkletNode is a new processor instance, whose cursor is 0.
StartCapture ==
  /\ ~displayStream
  /\ stopPc = "idle"
  /\ gen < MaxStarts
  /\ \E k \in 1..MaxElapsed :
        /\ now' = now + k * TickMs
        /\ SetMain(startCapture(Main, now + k * TickMs))
  /\ gen' = gen + 1
  /\ outSampleCursor' = 0
  /\ UNCHANGED <<uiVars, inRate, sumVars, loadVars, delivered, workerVars, toMain, histVars>>

\* btnStop is enabled from the start to the click on it.
StopCaptureDetach ==
  /\ displayStream
  /\ stopPc = "idle"
  /\ SetMain(stopCaptureDetach(Main))
  /\ UNCHANGED <<uiVars, inRate, sumVars, loadVars, now, workletVars, workerVars, toMain, histVars>>

StopCaptureFinish ==
  /\ stopPc = "closing"
  /\ SetMain(stopCaptureFinish(Main))
  /\ vadRun' = NoObj
  /\ UNCHANGED chunkRms
  /\ UNCHANGED <<uiVars, inRate, sumVars, loadVars, now, workletVars, workerVars, toMain, lastRead,
                 converted, clusterLog, replay>>

\* btnClear is enabled whenever no start is in progress.
ClearAll ==
  /\ SetMain(clearAll(Main))
  /\ vadRun' = NoObj
  /\ transcriptTa' = <<>>
  /\ lastSummarizedChar' = 0
  /\ UNCHANGED <<summaryCalls, summarizedChars, nextChar>>
  /\ UNCHANGED chunkRms
  /\ UNCHANGED <<uiVars, inRate, loadVars, now, workletVars, workerVars, toMain, lastRead,
                 converted, clusterLog, replay>>

ManualTranscribe ==
  /\ ~btnTranscribeDisabled
  /\ SetMain(manualTranscribe(Main))
  /\ UNCHANGED <<uiVars, inRate, sumVars, loadVars, now, workletVars, workerVars, toMain, histVars>>

\* The second run of the clustering before its first vector.
NoReplay == [speakerClusters |-> <<>>, nextSpeakerId |-> 1, ids |-> <<>>]

\* The VAD object as the script creates it (lines 93-105): rmsThreshold in
\* thousandths, the durations in ms.
VadDefaults ==
  [rmsThreshold |-> 15, hangoverMs |-> 400, minSegMs |-> 900,
   maxSegMs |-> 12000]

\* The diarization globals before the first start; p holds the VAD
\* parameters.
InitDiarization(p) ==
  /\ VAD = [enabled |-> FALSE, rmsThreshold |-> p.rmsThreshold,
            hangoverMs |-> p.hangoverMs, minSegMs |-> p.minSegMs,
            maxSegMs |-> p.maxSegMs, speechOn |-> FALSE, lastSpeechMs |-> 0,
            currentSeg |-> NoObj, segments |-> <<>>]
  /\ spkReady = FALSE
  /\ speakerClusters = <<>>
  /\ nextSpeakerId = 1
  /\ nextSegId = 1
  /\ spkBusy = FALSE
  /\ spkJob = <<>>
  /\ lastFailed = null
  /\ spkFailed = {}
  /\ discarded = {}
  /\ clusterLog = <<>>
  /\ replay = NoReplay
  /\ vadRun = NoObj
  /\ chunkRms = null

NoRead == [op |-> "none", a |-> 0, b |-> 0, covered |-> FALSE, out |-> NoObj]

\* The worker before any init message: no pipeline (part_001, lines 9-23).
NoInit == [pc |-> "idle", pref |-> "auto", device |-> "none"]
InitLoad ==
  /\ asrPipeline = "none"
  /\ spkPipeline = "none"
  /\ asrInit = NoInit
  /\ spkInit = NoInit
  /\ pipelineLog = {}

\* The page before any text is rendered: lastSummarizedChar = 0 (line 112).
InitSummary ==
  /\ transcriptTa = <<>>
  /\ lastSummarizedChar = 0
  /\ summaryCalls = <<>>
  /\ summarizedChars = {}
  /\ nextChar = 1

\* The page after load, before the audio context exists.
InitPageWith(vadParams) ==
  /\ InitLoad
  /\ InitSummary
  /\ now = 0
  /\ displayStream = FALSE
  /\ workletNode = FALSE
  /\ stopPc = "idle"
  /\ btnTranscribeDisabled = TRUE
  /\ captureStartEpochMs = null
  /\ firstSampleStart = null
  /\ pcmBlocks = <<>>
  /\ totalBufferedSamples = 0
  /\ asrReady = FALSE
  /\ inflightAsr = NoObj
  /\ nextId = 1
  /\ transcriptWords = <<>>
  /\ transcriptSegments = <<>>
  /\ InitDiarization(vadParams)
  /\ gen = 0
  /\ outSampleCursor = 0
  /\ delivered = 0
  /\ toWorker = <<>>
  /\ asrBusy = FALSE
  /\ asrJob = <<>>
  /\ toMain = <<>>
  /\ dispatched = <<>>
  /\ dispatchClock = <<null, null>>
  /\ lastRead = NoRead
  /\ converted = <<>>
\* The rate of the capture processor's output (this.outRate, line 15).
OutRate == 16000

\* The page on a device whose audio contexts run at 48 kHz.
InitMainWith(vadParams) ==
  /\ inRate = 3 * OutRate
  /\ InitPageWith(vadParams)

InitMain == InitMainWith(VadDefaults)

Init ==
  /\ winSecIn \in WinSecInputs
  /\ ovlSecIn \in OvlSecInputs
  /\ autoRunSel \in {"on"}
  /\ diarizeSel \in {"off"}
  /\ spkThreshIn = 0
  /\ InitMain

Next ==
  \/ StartCapture
  \/ StopCaptureDetach
  \/ StopCaptureFinish
  \/ ClearAll
  \/ ManualTranscribe
  \/ \E len \in ChunkLens : ChunkArrives(len)
  \/ WorkerReceive
  \/ \E out \in AsrOutputs : EngineResult(out)
  \/ EngineError
  \/ MainReceive

Spec == Init /\ [][Next]_vars

\* ------------------------------------------ the timeline buffer alone
\* The buffer operations applied in any order to a buffer that one processor
\* instance fills: append (the chunk handler's push), trim
\* (consumeToKeepOverlap), and the two reads, whose result is recorded.
BufSamples == 7

Covered(blocks, a, b) ==
  /\ a < b
  /\ blocks # <<>>
  /\ blocks[1].startSample <= a
  /\ b <= BlockEnd(blocks[Len(blocks)])

BufAppend(len) ==
  /\ outSampleCursor + len <= BufSamples
  /\ SetMain(appendBlock(Main, outSampleCursor,
                   [k \in 1..len |-> Sample(gen, outSampleCursor + k - 1)]))
  /\ outSampleCursor' = outSampleCursor + len
  /\ delivered' = delivered + len
  /\ UNCHANGED <<uiVars, inRate, sumVars, loadVars, now, gen, workerVars, toMain, histVars>>

BufTrim(keepStartSample) ==
  /\ SetMain(consumeToKeepOverlap(Main, keepStartSample))
  /\ UNCHANGED <<uiVars, inRate, sumVars, loadVars, now, workletVars, workerVars, toMain, histVars>>

BufReadRange(a, b) ==
  /\ lastRead' = [op |-> "range", a |-> a, b |-> b,
                  covered |-> Covered(pcmBlocks, a, b),
                  out |-> readRangeFromBlocks(pcmBlocks, a, b)]
  /\ UNCHANGED <<uiVars, inRate, sumVars, loadVars, now, mainVars, workletVars, toWorker, workerVars,
                 toMain, converted, diarHist>>

BufReadWindow(winSamples) ==
  /\ pcmBlocks # <<>>
  /\ LET a == pcmBlocks[1].startSample
         win == readWindowFromBlocks(pcmBlocks, winSamples)
     IN lastRead' = [op |-> "window", a |-> a, b |-> a + winSamples,
                     covered |-> Covered(pcmBlocks, a, a + winSamples),
                     out |-> IF win = NoObj THEN NoObj ELSE <<win[1].audio>>]
  /\ UNCHANGED <<uiVars, inRate, sumVars, loadVars, now, mainVars, workletVars, toWorker, workerVars,
                 toMain, converted, diarHist>>

InitBuffer ==
  /\ InitLoad
  /\ InitSummary
  /\ inRate = 3 * OutRate
  /\ winSecIn = 5 /\ ovlSecIn = 1 /\ autoRunSel = "off"
  /\ diarizeSel = "off" /\ spkThreshIn = 0
  /\ now = 0
  /\ displayStream = TRUE
  /\ workletNode = TRUE
  /\ stopPc = "idle"
  /\ btnTranscribeDisabled = TRUE
  /\ captureStartEpochMs = 0
  /\ firstSampleStart = null
  /\ pcmBlocks = <<>>
  /\ totalBufferedSamples = 0
  /\ asrReady = FALSE
  /\ inflightAsr = NoObj
  /\ nextId = 1
  /\ transcriptWords = <<>>
  /\ transcriptSegments = <<>>
  /\ InitDiarization(VadDefaults)
  /\ gen = 1
  /\ outSampleCursor = 0
  /\ delivered = 0
  /\ toWorker = <<>>
  /\ asrBusy = FALSE
  /\ asrJob = <<>>
  /\ toMain = <<>>
  /\ dispatched = <<>>
  /\ dispatchClock = <<null, null>>
  /\ lastRead = NoRead
  /\ converted = <<>>

NextBuffer ==
  \/ \E len \in ChunkLens : BufAppend(len)
  \/ \E k \in 0..BufSamples : BufTrim(k)
  \/ \E a \in 0..BufSamples : \E b \in 0..BufSamples : BufReadRange(a, b)
  \/ \E w \in 1..BufSamples : BufReadWindow(w)

SpecBuffer == InitBuffer /\ [][NextBuffer]_vars

\* --------------------------------------------- the session clock alone
\* sampleToEpochMs applied to sample indices under every state of the two
\* anchors, the last two conversions recorded.
ClockSamples == 6
ClockStarts == {null, 0, 500, 1000}
ClockFirsts == {null, 0, 2, 5}

Convert(sampleIndex) ==
  /\ Len(converted) < 2
  /\ converted' = Append(converted,
                         [s |-> sampleIndex,
                          e |-> sampleToEpochMs(Main, sampleIndex)])
  /\ UNCHANGED <<uiVars, inRate, sumVars, loadVars, now, mainVars, workletVars, toWorker, workerVars,
                 toMain, lastRead, diarHist>>

Forget ==
  /\ converted # <<>>
  /\ converted' = <<>>
  /\ UNCHANGED <<uiVars, inRate, sumVars, loadVars, now, mainVars, workletVars, toWorker, workerVars,
                 toMain, lastRead, diarHist>>

InitClock ==
  /\ InitLoad
  /\ InitSummary
  /\ inRate = 3 * OutRate
  /\ winSecIn = 5 /\ ovlSecIn = 1 /\ autoRunSel = "off"
  /\ diarizeSel = "off" /\ spkThreshIn = 0
  /\ now = 0
  /\ displayStream = TRUE
  /\ workletNode = TRUE
  /\ stopPc = "idle"
  /\ btnTranscribeDisabled = TRUE
  /\ captureStartEpochMs \in ClockStarts
  /\ firstSampleStart \in ClockFirsts
  /\ pcmBlocks = <<>>
  /\ totalBufferedSamples = 0
  /\ asrReady = FALSE
  /\ inflightAsr = NoObj
  /\ nextId = 1
  /\ transcriptWords = <<>>
  /\ transcriptSegments = <<>>
  /\ InitDiarization(VadDefaults)
  /\ gen = 1
  /\ outSampleCursor = 0
  /\ delivered = 0
  /\ toWorker = <<>>
  /\ asrBusy = FALSE
  /\ asrJob = <<>>
  /\ toMain = <<>>
  /\ dispatched = <<>>
  /\ dispatchClock = <<null, null>>
  /\ lastRead = NoRead
  /\ converted = <<>>

NextClock ==
  \/ \E s \in 0..ClockSamples : Convert(s)
  \/ Forget

SpecClock == InitClock /\ [][NextClock]_vars

\* -------------------------------------------- the end-to-end scenario
\* Audio of 45 s delivered without interruption from sample 0, window of
\* 15 s, overlap of 3 s, auto-dispatch on, model loaded, every job answered
\* with a result.
E2ESamples == 45 * TARGET_SR
E2EChunkLens == {3, 5}

InitE2E ==
  /\ winSecIn = 15
  /\ ovlSecIn = 3
  /\ autoRunSel = "on"
  /\ diarizeSel = "off"
  /\ spkThreshIn = 0
  /\ InitMain

NextE2E ==
  \/ StartCapture
  \/ \E len \in E2EChunkLens : Chunk(len, E2ESamples)
  \/ WorkerReceive
  \/ \E out \in AsrOutputs : EngineResult(out)
  \/ MainReceive

SpecE2E == InitE2E /\ [][NextE2E]_vars

\* ------------------------------------------------ the clustering alone
\* assignToSpeakerCluster applied to one embedding after the other, starting
\* from no cluster, each call logged; a second run is fed the same vectors
\* behind the first.
MaxVectors == 4

\* Unit vectors with coordinates in fifths: (1,0), (0.8,0.6), (0.8,-0.6),
\* (0,1).
Vec(a, b) == <<(a * One) \div 5, (b * One) \div 5>>
EmbedVectors == {Vec(5, 0), Vec(4, 3), Vec(4, 0 - 3), Vec(0, 5)}
\* Values of the threshold input in hundredths; 0 stands for every falsy
\* Number(...) result.
SpkThreshInputs == {0, 60}

ClusterFeed(vec) ==
  /\ Len(clusterLog) < MaxVectors
  /\ LET a == assignToSpeakerCluster(Main, vec, spkThreshold)
     IN /\ SetMain(a.m)
        /\ clusterLog' = Append(clusterLog,
                                [vec |-> vec, id |-> a.id,
                                 threshold |-> spkThreshold,
                                 before |-> speakerClusters,
                                 nextBefore |-> nextSpeakerId,
                                 after |-> a.m.speakerClusters])
  /\ UNCHANGED <<uiVars, inRate, sumVars, loadVars, now, workletVars, workerVars, toMain, lastRead,
                 converted, replay, vadRun, chunkRms>>

ClusterReplay ==
  /\ Len(replay.ids) < Len(clusterLog)
  /\ LET vec == clusterLog[Len(replay.ids) + 1].vec
         a == assignToSpeakerCluster(
                [Main EXCEPT !.speakerClusters = replay.speakerClusters,
                             !.nextSpeakerId = replay.nextSpeakerId],
                vec, spkThreshold)
     IN replay' = [speakerClusters |-> a.m.speakerClusters,
                   nextSpeakerId |-> a.m.nextSpeakerId,
                   ids |-> Append(replay.ids, a.id)]
  /\ UNCHANGED <<uiVars, inRate, sumVars, loadVars, now, mainVars, workletVars, toWorker, workerVars,
                 toMain, lastRead, converted, clusterLog, vadRun,
                 chunkRms>>

InitCluster ==
  /\ winSecIn = 5 /\ ovlSecIn = 1 /\ autoRunSel = "on"
  /\ diarizeSel = "on"
  /\ spkThreshIn \in SpkThreshInputs
  /\ InitMain

NextCluster ==
  \/ \E vec \in EmbedVectors : ClusterFeed(vec)
  \/ ClusterReplay

SpecCluster == InitCluster /\ [][NextCluster]_vars

\* ------------------------------------------------------- the VAD alone
\* Capture with diarization on and auto-dispatch off: chunks at or below the
\* threshold are handled at the cadence of the audio or in a burst, capture
\* is stopped and started again.  The durations of the VAD are the code's or
\* a set for which a chunk of one or two samples is shorter than each of them.
VadSamples == 4
VadChunkLens == {1, 2}
RmsInputs == {0, 15}
VadParamSets ==
  { VadDefaults,
    [rmsThreshold |-> 15, hangoverMs |-> 1500, minSegMs |-> 2500,
     maxSegMs |-> 3000] }

InitVad ==
  /\ winSecIn = 5 /\ ovlSecIn = 1 /\ autoRunSel = "off"
  /\ diarizeSel = "on"
  /\ spkThreshIn = 0
  /\ \E p \in VadParamSets : InitMainWith(p)

NextVad ==
  \/ StartCapture
  \/ \E len \in VadChunkLens : \E rms \in RmsInputs :
       \E elapsed \in {0, ChunkMs(len)} :
         ChunkRms(len, rms, elapsed, VadSamples)
  \/ StopCaptureDetach
  \/ StopCaptureFinish

SpecVad == InitVad /\ [][NextVad]_vars

\* --------------------------------------- the pipeline with diarization
\* One capture with diarization and auto-dispatch on: the chunk handler runs
\* at the cadence of the audio, the worker takes its messages in order and
\* the engine and the embedder answer or fail at any time after; Clear may
\* be clicked at any time.
DiarSamples == 5
DiarChunkLens == {1, 2}
\* What the engine returns for a window: one word over the first four
\* seconds, or a word over the second second and an empty one.
DiarOutputs ==
  { [text |-> <<"a">>,
     chunks |-> << [text |-> <<" ", "a">>, timestamp |-> <<0, 8>>] >>],
    [text |-> <<"a", " ", "b">>,
     chunks |-> << [text |-> <<" ", "a">>, timestamp |-> <<2, 4>>],
                   [text |-> <<" ", "b">>, timestamp |-> <<8, null>>] >>] }
DiarVectors == {Vec(5, 0), Vec(0, 5)}

InitDiar ==
  /\ winSecIn = 5 /\ ovlSecIn = 1 /\ autoRunSel = "on"
  /\ diarizeSel = "on"
  /\ spkThreshIn = 0
  /\ InitMain

NextDiar ==
  \/ StartCapture
  \/ \E len \in DiarChunkLens : \E rms \in RmsInputs :
       ChunkRms(len, rms, ChunkMs(len), DiarSamples)
  \/ ClearAll
  \/ WorkerReceive
  \/ \E out \in DiarOutputs : EngineResult(out)
  \/ EngineError
  \/ \E vec \in DiarVectors : EmbedResult(vec)
  \/ EmbedError
  \/ MainReceiveLogged

SpecDiar == InitDiar /\ [][NextDiar]_vars

\* ------------------------------------- stopping with work outstanding
\* Capture with diarization and auto-dispatch on that is stopped, and may be
\* started again, while a recognition job or an embedding is outstanding;
\* the Transcribe button may be clicked whenever it is enabled.
StopSamples == 9
StopChunkLens == {4, 5}
StopOutputs ==
  { [text |-> <<"a">>,
     chunks |-> << [text |-> <<" ", "a">>, timestamp |-> <<0, 2>>] >>] }
StopVectors == {Vec(5, 0)}

InitStop ==
  /\ winSecIn = 5 /\ ovlSecIn = 1 /\ autoRunSel = "on"
  /\ diarizeSel = "on"
  /\ spkThreshIn = 0
  /\ InitMain

NextStop ==
  \/ StartCapture
  \/ \E len \in StopChunkLens : \E rms \in RmsInputs :
       ChunkRms(len, rms, ChunkMs(len), StopSamples)
  \/ StopCaptureDetach
  \/ StopCaptureFinish
  \/ ManualTranscribe
  \/ WorkerReceive
  \/ \E out \in StopOutputs : EngineResult(out)
  \/ \E vec \in StopVectors : EmbedResult(vec)
  \/ MainReceive

SpecStop == InitStop /\ [][NextStop]_vars

\* --------------------------------------- words of overlapping windows
\* One capture with a window of 5 s and an overlap of 2 s, auto-dispatch on;
\* the engine returns one word, at the start of the window or in its last
\* second (inside the audio the next window repeats).
WordSamples == 9
WordChunkLens == {1, 2, 3}
WordOutputs ==
  { [text |-> <<"a">>,
     chunks |-> << [text |-> <<" ", "a">>, timestamp |-> <<0, 1>>] >>],
    [text |-> <<"b">>,
     chunks |-> << [text |-> <<" ", "b">>, timestamp |-> <<9, null>>] >>] }

InitWords ==
  /\ winSecIn = 5 /\ ovlSecIn = 2 /\ autoRunSel = "on"
  /\ diarizeSel = "off"
  /\ spkThreshIn = 0
  /\ InitMain

NextWords ==
  \/ StartCapture
  \/ \E len \in WordChunkLens : Chunk(len, WordSamples)
  \/ WorkerReceive
  \/ \E out \in WordOutputs : EngineResult(out)
  \/ MainReceive

SpecWords == InitWords /\ [][NextWords]_vars

\* ------------------------------------------------- model loading alone
\* initAsr and initSpeakerEmbedding of the main thread post init messages
\* with the device preference selected at that moment; the worker's initASR
\* and initSPK construct the pipelines, each construction succeeding or
\* failing. Nothing is captured.
DevicePrefs == {"auto", "webgpu", "wasm"}
\* A load is requested while at most so many replies wait for the main
\* thread.
MaxQueued == 0

pickDevice(devicePref) ==
  IF devicePref = "wasm" THEN "wasm"
  ELSE IF devicePref = "webgpu" THEN "webgpu"
  ELSE "webgpu"

InitRequested(type) == \E i \in 1..Len(toWorker) : toWorker[i].type = type

\* initAsr up to its await (main.js, lines 384-389); devicePref is
\* devicePrefSel.value. One load of a model is requested at a time.
InitAsr(devicePref) ==
  /\ asrInit.pc = "idle" /\ ~InitRequested("init_asr")
  /\ Len(toMain) <= MaxQueued
  /\ asrReady' = FALSE
  /\ toWorker' = Append(toWorker, [type |-> "init_asr",
                                   devicePref |-> devicePref])
  /\ UNCHANGED <<uiVars, inRate, sumVars, loadVars, now, workletVars, workerVars, toMain,
                 histVars, displayStream, workletNode, stopPc,
                 btnTranscribeDisabled, captureStartEpochMs, firstSampleStart,
                 pcmBlocks, totalBufferedSamples, inflightAsr, nextId,
                 transcriptWords, transcriptSegments, dispatched,
                 dispatchClock, VAD, spkReady, speakerClusters, nextSpeakerId,
                 nextSegId, lastFailed, spkFailed, discarded>>

\* initSpeakerEmbedding up to its await (main.js, lines 392-400), called
\* once initAsr has returned.
InitSpeakerEmbedding(devicePref) ==
  /\ asrReady
  /\ spkInit.pc = "idle" /\ ~InitRequested("init_spk")
  /\ Len(toMain) <= MaxQueued
  /\ spkReady' = FALSE
  /\ toWorker' = Append(toWorker, [type |-> "init_spk",
                                   devicePref |-> devicePref])
  /\ UNCHANGED <<uiVars, inRate, sumVars, loadVars, now, workletVars, workerVars, toMain,
                 histVars, displayStream, workletNode, stopPc,
                 btnTranscribeDisabled, captureStartEpochMs, firstSampleStart,
                 pcmBlocks, totalBufferedSamples, asrReady, inflightAsr,
                 nextId, transcriptWords, transcriptSegments, dispatched,
                 dispatchClock, VAD, speakerClusters, nextSpeakerId,
                 nextSegId, lastFailed, spkFailed, discarded>>

Status(type, status) == [type |-> type, status |-> status]
Ready(type, device) == [type |-> type, device |-> device]
Attempt(task, init) ==
  [task |-> task, pref |-> init.pref, device |-> init.device]

\* initASR / initSPK up to the first await pipeline(...) (lines 40-48,
\* 69-77).
initBegin(msg) ==
  [pc |-> "first", pref |-> msg.devicePref,
   device |-> pickDevice(msg.devicePref)]

\* The catch of initASR / initSPK (lines 49-56, 78-85): a failure on a
\* device other than wasm is followed by a construction on wasm.
fallsBack(init) == init.pc = "first" /\ init.device # "wasm"
initFallback(init) == [init EXCEPT !.pc = "fallback", !.device = "wasm"]

\* self.onmessage of the worker for an init message (lines 209-213).
WorkerInit ==
  /\ toWorker # <<>>
  /\ Head(toWorker).type \in {"init_asr", "init_spk"}
  /\ LET msg == Head(toWorker)
         init == initBegin(msg)
     IN /\ toWorker' = Tail(toWorker)
        /\ IF msg.type = "init_asr"
             THEN /\ asrInit' = init
                  /\ toMain' = Append(toMain, Status("asr_status", "loading"))
                  /\ pipelineLog' = pipelineLog \cup {Attempt("asr", init)}
                  /\ UNCHANGED spkInit
             ELSE /\ spkInit' = init
                  /\ toMain' = Append(toMain, Status("spk_status", "loading"))
                  /\ pipelineLog' = pipelineLog \cup {Attempt("spk", init)}
                  /\ UNCHANGED asrInit
  /\ UNCHANGED <<uiVars, inRate, sumVars, asrPipeline, spkPipeline, now, mainVars, workletVars,
                 workerVars, histVars>>

\* The awaited pipeline of initASR is constructed (lines 58-63).
AsrPipelineResolves ==
  /\ asrInit.pc \in {"first", "fallback"}
  /\ asrPipeline' = asrInit.device
  /\ asrInit' = NoInit
  /\ toMain' = toMain \o << Ready("asr_ready", asrInit.device),
                            Status("asr_status", "ready") >>
  /\ UNCHANGED <<uiVars, inRate, sumVars, spkPipeline, spkInit, pipelineLog, now, mainVars,
                 workletVars, toWorker, workerVars, histVars>>

\* The awaited pipeline of initASR fails (lines 49-56); an error that
\* leaves initASR is caught by self.onmessage (lines 216-218).
AsrPipelineRejects ==
  /\ asrInit.pc \in {"first", "fallback"}
  /\ IF fallsBack(asrInit)
       THEN /\ asrInit' = initFallback(asrInit)
            /\ pipelineLog' =
                 pipelineLog \cup {Attempt("asr", initFallback(asrInit))}
            /\ toMain' = Append(toMain, Status("asr_status",
                                               "webgpu_failed_fallback_wasm"))
       ELSE /\ asrInit' = NoInit
            /\ toMain' = Append(toMain, [type |-> "asr_error", id |-> null])
            /\ UNCHANGED pipelineLog
  /\ UNCHANGED <<uiVars, inRate, sumVars, asrPipeline, spkPipeline, spkInit, now, mainVars,
                 workletVars, toWorker, workerVars, histVars>>

\* The awaited pipeline of initSPK is constructed (lines 87-90).
SpkPipelineResolves ==
  /\ spkInit.pc \in {"first", "fallback"}
  /\ spkPipeline' = spkInit.device
  /\ spkInit' = NoInit
  /\ toMain' = toMain \o << Ready("spk_ready", spkInit.device),
                            Status("spk_status", "ready") >>
  /\ UNCHANGED <<uiVars, inRate, sumVars, asrPipeline, asrInit, pipelineLog, now, mainVars,
                 workletVars, toWorker, workerVars, histVars>>

\* The awaited pipeline of initSPK fails (lines 78-85, 216-218).
SpkPipelineRejects ==
  /\ spkInit.pc \in {"first", "fallback"}
  /\ IF fallsBack(spkInit)
       THEN /\ spkInit' = initFallback(spkInit)
            /\ pipelineLog' =
                 pipelineLog \cup {Attempt("spk", initFallback(spkInit))}
            /\ toMain' = Append(toMain, Status("spk_status",
                                               "webgpu_failed_fallback_wasm"))
       ELSE /\ spkInit' = NoInit
            /\ toMain' = Append(toMain, [type |-> "asr_error", id |-> null])
            /\ UNCHANGED pipelineLog
  /\ UNCHANGED <<uiVars, inRate, sumVars, asrPipeline, spkPipeline, asrInit, now, mainVars,
                 workletVars, toWorker, workerVars, histVars>>

InitDevice ==
  /\ winSecIn = 5 /\ ovlSecIn = 1 /\ autoRunSel = "on"
  /\ diarizeSel = "on"
  /\ spkThreshIn = 0
  /\ InitMain

NextDevice ==
  \/ \E devicePref \in DevicePrefs : InitAsr(devicePref)
  \/ \E devicePref \in DevicePrefs : InitSpeakerEmbedding(devicePref)
  \/ WorkerInit
  \/ AsrPipelineResolves
  \/ AsrPipelineRejects
  \/ SpkPipelineResolves
  \/ SpkPipelineRejects
  \/ MainReceive

SpecDevice == InitDevice /\ [][NextDevice]_vars

\* ------------------------------------------- the cap on long segments
\* One capture with diarization on and a cap of 2 s on the segments, so that
\* speech goes on after a segment was capped.
CapSamples == 6
CapParams ==
  [rmsThreshold |-> 15, hangoverMs |-> 400, minSegMs |-> 900,
   maxSegMs |-> 2 * 1000]

InitCap ==
  /\ winSecIn = 5 /\ ovlSecIn = 1 /\ autoRunSel = "off"
  /\ diarizeSel = "on"
  /\ spkThreshIn = 0
  /\ InitMainWith(CapParams)

NextCap ==
  \/ StartCapture
  \/ \E len \in VadChunkLens : \E rms \in RmsInputs :
       \E elapsed \in {0, ChunkMs(len)} :
         ChunkRms(len, rms, elapsed, CapSamples)

SpecCap == InitCap /\ [][NextCap]_vars

\* -------------------------------------------------- delta summarization
\* The transcript area and the summarizer.  A character of the model stands
\* for 250 characters of text, the least delta summarizeIfNeeded sends; the
\* trim of the delta is left out (the rendered lines neither begin nor end
\* with white space).
MaxChars == 4
MaxCalls == 2

\* getTranscriptDelta (lines 1007-1011): the text from lastSummarizedChar on.
getTranscriptDelta(full, last) ==
  IF Len(full) <= last THEN <<>>
  ELSE SubSeq(full, last + 1, Len(full))

\* renderTranscript at the end of handleAsrResult (line 643), when the new
\* words extend the text by n characters.
Render(n) ==
  /\ nextChar + n <= MaxChars + 1
  /\ transcriptTa' = transcriptTa \o [k \in 1..n |-> nextChar + k - 1]
  /\ nextChar' = nextChar + n
  /\ UNCHANGED <<lastSummarizedChar, summaryCalls, summarizedChars>>
  /\ UNCHANGED <<uiVars, inRate, loadVars, now, mainVars, workletVars, toWorker,
                 workerVars, toMain, histVars>>

\* summarizeNow up to its await (lines 1037-1059): from the button
\* (isAuto = FALSE) or from the timer that runs from startCapture to
\* stopCapture, through summarizeIfNeeded (isAuto = TRUE).  Nothing keeps a
\* second call from starting while one waits.
SummarizeNow(isAuto) ==
  /\ isAuto => (displayStream /\ stopPc = "idle")
  /\ Len(summaryCalls) < MaxCalls
  /\ LET delta == getTranscriptDelta(transcriptTa, lastSummarizedChar)
     IN /\ delta # <<>>
        /\ summaryCalls' = Append(summaryCalls,
                                  [isAuto |-> isAuto,
                                   from |-> lastSummarizedChar,
                                   delta |-> delta])
  /\ UNCHANGED <<transcriptTa, lastSummarizedChar, summarizedChars, nextChar>>
  /\ UNCHANGED <<uiVars, inRate, loadVars, now, mainVars, workletVars, toWorker,
                 workerVars, toMain, histVars>>

\* The i-th waiting call ends: the server answers (ok, lines 1061-1067) or
\* the call fails (the catch, lines 1068-1071).
SummaryEnd(i, ok) ==
  /\ i \in 1..Len(summaryCalls)
  /\ lastSummarizedChar' = IF ok THEN Len(transcriptTa)
                           ELSE lastSummarizedChar
  /\ summarizedChars' =
       IF ok THEN summarizedChars \cup
                    {summaryCalls[i].delta[k] :
                       k \in 1..Len(summaryCalls[i].delta)}
       ELSE summarizedChars
  /\ summaryCalls' = [k \in 1..(Len(summaryCalls) - 1) |->
                        summaryCalls[IF k < i THEN k ELSE k + 1]]
  /\ UNCHANGED <<transcriptTa, nextChar>>
  /\ UNCHANGED <<uiVars, inRate, loadVars, now, mainVars, workletVars, toWorker,
                 workerVars, toMain, histVars>>

InitSum ==
  /\ winSecIn = 5 /\ ovlSecIn = 1 /\ autoRunSel = "off"
  /\ diarizeSel = "off"
  /\ spkThreshIn = 0
  /\ InitMain

NextSum ==
  \/ StartCapture
  \/ ClearAll
  \/ \E n \in 1..2 : Render(n)
  \/ \E isAuto \in BOOLEAN : SummarizeNow(isAuto)
  \/ \E i \in 1..MaxCalls : \E ok \in BOOLEAN : SummaryEnd(i, ok)

SpecSum == InitSum /\ [][NextSum]_vars

\* ------------------------------------------------- the capture processor
\* PcmCaptureProcessor (pcm-worklet.js) on devices of 16, 44.1 and 48 kHz,
\* fed frames of several lengths, the empty one included; a chunk it posts is
\* handled by the main thread at once.  Auto-dispatch is off, so pcmBlocks
\* holds every chunk posted, in order.
WorkletSamples == 6
InRates == {OutRate, 44100, 3 * OutRate}
FrameLens == {0, 1, 2, 3, 6}

\* Math.floor(mono.length / this.ratio) with ratio = inRate / outRate (lines
\* 16 and 30), in integers.
outLen(frameLen, rate) == (frameLen * OutRate) \div rate

\* Mutant: the counter advances by the length of the input frame.
process_CountsInput(cursor, rate, frameLen) ==
  IF frameLen = 0 THEN [outSampleCursor |-> cursor, post |-> NoObj]
  ELSE LET n == outLen(frameLen, rate)
       IN IF n <= 0 THEN [outSampleCursor |-> cursor, post |-> NoObj]
          ELSE [outSampleCursor |-> cursor + frameLen,
                post |-> << [startSample |-> cursor, length |-> n] >>]

\* process (lines 22-52) on a frame of frameLen samples: the counter after
\* the call and the message posted, if any.
process(cursor, rate, frameLen) ==
  IF frameLen = 0 THEN [outSampleCursor |-> cursor, post |-> NoObj]
  ELSE LET n == outLen(frameLen, rate)
       IN IF n <= 0 THEN [outSampleCursor |-> cursor, post |-> NoObj]
          ELSE [outSampleCursor |-> cursor + n,
                post |-> << [startSample |-> cursor, length |-> n] >>]

\* The audio thread calls process on the running instance.
Process(frameLen) ==
  /\ workletNode
  /\ delivered + outLen(frameLen, inRate) <= WorkletSamples
  /\ LET r == process(outSampleCursor, inRate, frameLen)
     IN /\ outSampleCursor' = r.outSampleCursor
        /\ IF r.post = NoObj
             THEN UNCHANGED <<mainVars, toWorker, delivered>>
             ELSE LET msg == r.post[1]
                  IN /\ SetMain(onChunk(Main, msg.startSample,
                                        [k \in 1..msg.length |->
                                           Sample(gen, msg.startSample + k - 1)]))
                     /\ delivered' = delivered + msg.length
  /\ UNCHANGED <<uiVars, inRate, sumVars, loadVars, now, gen, workerVars,
                 toMain, histVars>>

InitWorklet ==
  /\ winSecIn = 5 /\ ovlSecIn = 1 /\ autoRunSel = "off"
  /\ diarizeSel = "off"
  /\ spkThreshIn = 0
  /\ inRate \in InRates
  /\ InitPageWith(VadDefaults)

NextWorklet ==
  \/ StartCapture
  \/ \E frameLen \in FrameLens : Process(frameLen)
  \/ StopCaptureDetach
  \/ StopCaptureFinish

SpecWorklet == InitWorklet /\ [][NextWorklet]_vars

\* ------------------------------------------------------------- claims
\* Ids of the transcribe requests posted to the worker that the engine has
\* not answered: still queued, or being processed.
RECURSIVE QueuedIds(_)
QueuedIds(q) == IF q = <<>> THEN {} ELSE {Head(q).id} \cup QueuedIds(Tail(q))
Unanswered == QueuedIds(toWorker) \cup {asrJob[i] : i \in 1..Len(asrJob)}

\* C1 (as claimed): in every reachable state at most one recognition request
\* has been dispatched to the recognition engine and not yet answered.
C1_SingleInflight == Cardinality(Unanswered) <= 1

\* The replies on their way to the main thread that free the slot of job id.
RECURSIVE FreeingReplies(_, _)
FreeingReplies(q, id) ==
  IF q = <<>> THEN 0
  ELSE (IF Head(q).id = id /\ Head(q).type \in {"asr_result", "asr_error"}
          THEN 1 ELSE 0) + FreeingReplies(Tail(q), id)

\* C2 (as claimed, in the form a finite run refutes): every dispatched job
\* eventually frees the outstanding-job slot, so a job that holds the slot is
\* never left without anything that frees it: its request is still with the
\* worker, or its result or error is on the way to the main thread (the code
\* has no timeout and no other handler frees the slot, short of clearAll).
C2_SlotCanBeFreed ==
  inflightAsr # NoObj =>
    \/ inflightAsr[1].id \in Unanswered
    \/ FreeingReplies(toMain, inflightAsr[1].id) > 0

\* C3 (as claimed): between two resets, consecutive dispatched windows satisfy
\* W[i+1].start = W[i].end - overlapSamples and every window has exactly
\* windowSamples samples.
C3_WindowSpacing ==
  /\ \A i \in 1..Len(dispatched) :
       dispatched[i].endSample - dispatched[i].startSample
         = getWindowParams.winSamples
  /\ \A i \in 1..(Len(dispatched) - 1) :
       dispatched[i + 1].startSample
         = dispatched[i].endSample - getWindowParams.ovlSamples

Contiguous(blocks) ==
  \A i \in 1..(Len(blocks) - 1) :
    blocks[i + 1].startSample = BlockEnd(blocks[i])

\* C7 (as claimed): in every reachable state the buffered blocks are ordered
\* by startSample and contiguous.
C7_Contiguous == Contiguous(pcmBlocks)

MaxChunkLen == CHOOSE n \in ChunkLens : \A k \in ChunkLens : k <= n

RECURSIVE SumLen(_)
SumLen(blocks) ==
  IF blocks = <<>> THEN 0 ELSE Len(Head(blocks).pcm) + SumLen(Tail(blocks))

WordsOnDispatchClock(msg) ==
  WordsOfChunks([captureStartEpochMs |-> dispatchClock[1],
                 firstSampleStart |-> dispatchClock[2]],
                inflightAsr[1].winStartSample, msg.chunks)

\* C9 (as claimed): the words of an accepted result are emitted with
\* timestamps computed from the window's start sample on the session clock in
\* force at dispatch, whatever happened between dispatch and result.
C9_TimestampsOnDispatchClock ==
  [][(/\ toMain # <<>>
      /\ toMain' = Tail(toMain)
      /\ Head(toMain).type = "asr_result"
      /\ inflightAsr # NoObj
      /\ inflightAsr[1].id = Head(toMain).id
      /\ Head(toMain).text # <<>>)
     => transcriptWords'
          = transcriptWords \o WordsOnDispatchClock(Head(toMain))]_vars

\* ------------------------------------------------ claims: timeline buffer
\* The samples of the absolute range [a, b) as the processor produced them.
Expected(a, b) == [k \in 1..(b - a) |-> Sample(gen, a + k - 1)]

\* C5 (as claimed): a ranged read returns data if and only if the buffer
\* currently holds every sample of the requested range; it never returns a
\* partially filled range.
C5_ReadIffCovered ==
  lastRead.op # "none" =>
    /\ (lastRead.out # NoObj) <=> lastRead.covered
    /\ lastRead.out # NoObj =>
         \A k \in 1..Len(lastRead.out[1]) : lastRead.out[1][k] # ZeroSample

\* C6: reading back a range the buffer fully covers returns exactly the
\* samples that were appended for that range, in order, whatever the block
\* boundaries and whatever was trimmed before.
C6_RoundTrip ==
  (lastRead.op # "none" /\ lastRead.covered) =>
    lastRead.out = <<Expected(lastRead.a, lastRead.b)>>

\* A covered ranged read that starts inside the first block, after a trim cut
\* that block, and ends in a later block.
C6_Witness ==
  /\ lastRead.op = "range"
  /\ lastRead.covered
  /\ Len(pcmBlocks) >= 2
  /\ pcmBlocks[1].startSample > 0
  /\ lastRead.a > pcmBlocks[1].startSample
  /\ lastRead.a < BlockEnd(pcmBlocks[1])
  /\ lastRead.b > BlockEnd(pcmBlocks[1])
  /\ lastRead.out = readRangeFromBlocks(pcmBlocks, lastRead.a, lastRead.b)

\* --------------------------------------------------- claims: session clock
ClockSet == captureStartEpochMs # null /\ firstSampleStart # null

\* C10: within one session clock sampleToEpochMs is affine in the sample
\* index: two indices differ in epoch ms by their difference over TARGET_SR
\* times 1000, and the first buffered sample maps to the capture-start epoch.
C10_Affine ==
  ClockSet =>
    \A i \in 1..Len(converted) : \A j \in 1..Len(converted) :
      /\ converted[j].e - converted[i].e
           = ((converted[j].s - converted[i].s) * 1000) \div TARGET_SR
      /\ converted[i].s = firstSampleStart
           => converted[i].e = captureStartEpochMs

\* Two different indices converted under a clock whose first sample is not 0,
\* one of them the first sample.
C10_Witness ==
  /\ ClockSet
  /\ firstSampleStart > 0
  /\ Len(converted) = 2
  /\ converted[1].s = firstSampleStart
  /\ converted[2].s < converted[1].s

\* ------------------------------------------------------ claims: end to end
E2EWindow(a, b) ==
  [startSample |-> a * TARGET_SR, endSample |-> b * TARGET_SR]
E2EBounds(i) ==
  [startSample |-> dispatched[i].startSample,
   endSample |-> dispatched[i].endSample]
E2EQuiet ==
  /\ delivered = E2ESamples
  /\ inflightAsr = NoObj
  /\ toWorker = <<>> /\ asrJob = <<>> /\ toMain = <<>>
IsPrefix(p, q) ==
  Len(p) <= Len(q) /\ \A i \in 1..Len(p) : p[i] = q[i]
E2EDispatched == [i \in 1..Len(dispatched) |-> E2EBounds(i)]
E2EAfterDelivery ==
  \A i \in 1..Len(dispatched) : dispatched[i].endSample <= delivered

\* C4 (as claimed): with 45 s of audio, a 15 s window and 3 s of overlap,
\* exactly two windows are dispatched, [0,15) s and then [12,27) s, each only
\* once its samples have been delivered; a third window is not dispatched and
\* the samples from 24 s onward stay buffered.
C4_TwoWindows ==
  /\ IsPrefix(E2EDispatched, <<E2EWindow(0, 15), E2EWindow(12, 27)>>)
  /\ E2EAfterDelivery
  /\ E2EQuiet =>
       /\ Len(dispatched) = 2
       /\ Covered(pcmBlocks, 24 * TARGET_SR, E2ESamples)

\* C4 (amended): three windows are dispatched, [0,15) s, [12,27) s and
\* [24,39) s, in this order and each only once its samples have been
\* delivered; a fourth, [36,51) s, is not, and when everything is answered
\* the buffer holds exactly the samples from 36 s to 45 s.
C4_ThreeWindows ==
  /\ IsPrefix(E2EDispatched,
              <<E2EWindow(0, 15), E2EWindow(12, 27), E2EWindow(24, 39)>>)
  /\ E2EAfterDelivery
  /\ \A i \in 1..Len(dispatched) :
       dispatched[i].audio
         = Expected(dispatched[i].startSample, dispatched[i].endSample)
  /\ E2EQuiet =>
       /\ Len(dispatched) = 3
       /\ pcmBlocks # <<>>
       /\ pcmBlocks[1].startSample = 36 * TARGET_SR
       /\ Contiguous(pcmBlocks)
       /\ BlockEnd(pcmBlocks[Len(pcmBlocks)]) = E2ESamples
       /\ totalBufferedSamples = 9 * TARGET_SR

C4_Witness ==
  /\ E2EQuiet
  /\ Len(dispatched) = 3
  /\ totalBufferedSamples = 9 * TARGET_SR

\* ------------------------------------------------------ claims: clustering
\* The similarities of a logged vector to the centroids it met.
SimsOf(e) == [k \in 1..Len(e.before) |-> dot(e.vec, e.before[k].centroid)]
\* The first cluster among those of maximum similarity.
FirstMax(sims) ==
  CHOOSE k \in 1..Len(sims) :
    /\ \A j \in 1..Len(sims) : sims[j] <= sims[k]
    /\ \A j \in 1..(k - 1) : sims[j] < sims[k]
Joins(e) ==
  /\ e.before # <<>>
  /\ SimsOf(e)[FirstMax(SimsOf(e))] >= e.threshold

\* C14: a vector whose maximum similarity to a centroid reaches the threshold
\* joins that cluster (the first among equals): only its count grows, by 1,
\* and no cluster is created; otherwise a new cluster with the next sequential
\* id, count 1 and this vector as centroid is appended and no cluster changes.
C14_AssignOrCreate ==
  \A n \in 1..Len(clusterLog) :
    LET e == clusterLog[n]
        k == FirstMax(SimsOf(e))
    IN IF Joins(e)
         THEN /\ e.id = e.before[k].id
              /\ Len(e.after) = Len(e.before)
              /\ e.after[k].id = e.before[k].id
              /\ e.after[k].count = e.before[k].count + 1
              /\ \A j \in 1..Len(e.before) : j # k => e.after[j] = e.before[j]
         ELSE /\ e.id = e.nextBefore
              /\ e.id = Len(e.before) + 1
              /\ e.after = Append(e.before, [id |-> e.id, centroid |-> e.vec,
                                             count |-> 1])

\* Both cases happened: a vector as similar to two clusters as the threshold
\* asks joined one of them, and a vector created a cluster beside another.
C14_Witness ==
  /\ \E n \in 1..Len(clusterLog) :
       /\ Joins(clusterLog[n])
       /\ \E i, j \in 1..Len(clusterLog[n].before) :
            i # j /\ SimsOf(clusterLog[n])[i] = SimsOf(clusterLog[n])[j]
                  /\ SimsOf(clusterLog[n])[i] >= clusterLog[n].threshold
  /\ \E n \in 1..Len(clusterLog) :
       ~Joins(clusterLog[n]) /\ clusterLog[n].before # <<>>

DurMs(a, b) == ((b - a) * 1000) \div TARGET_SR
RunMs == DurMs(vadRun[1].first, vadRun[1].last)
\* The step on which the silence after a speech run has lasted longer than
\* hangoverMs.
RunEnds ==
  /\ vadRun # NoObj /\ vadRun[1].open
  /\ vadRun' # NoObj /\ ~vadRun'[1].open
\* What the run left: one segment more than before it, spanning the run, or
\* none.
OneSegmentOfRun ==
  /\ Len(VAD'.segments) = vadRun[1].segs0 + 1
  /\ VAD'.segments[Len(VAD'.segments)].startSample = vadRun[1].first
  /\ VAD'.segments[Len(VAD'.segments)].endSample = vadRun[1].last
NoSegmentOfRun == Len(VAD'.segments) = vadRun[1].segs0

\* C16 (as claimed): speech of duration D from IDLE followed by silence longer
\* than hangoverMs leaves exactly one promoted segment spanning the speech if
\* D >= minSegMs, and none if D < minSegMs.
C16_OneSegmentPerRun ==
  [][RunEnds =>
       IF RunMs >= VAD.minSegMs THEN OneSegmentOfRun ELSE NoSegmentOfRun]_vars

\* A chunk below the threshold ends, by the hangover rule, an open segment.
HangoverFinalize ==
  /\ delivered' > delivered
  /\ chunkRms' < VAD.rmsThreshold
  /\ VAD.speechOn /\ ~VAD'.speechOn
  /\ VAD.currentSeg # NoObj
\* stopCapture flushes an open segment.
StopFlush ==
  /\ stopPc = "closing" /\ stopPc' = "idle"
  /\ VAD.enabled /\ VAD.currentSeg # NoObj

\* C17: a segment shorter than minSegMs that the hangover rule finalizes is
\* discarded: it is not added to the segments and not sent for embedding, and
\* no other step than the stop flush adds a segment that short; a segment the
\* stop flush finalizes is added and sent whatever its duration.
C17_ShortDiscardedUnlessFlushed ==
  [][/\ (HangoverFinalize
           /\ DurMs(VAD.currentSeg[1].startSample, VAD.currentSeg[1].endSample)
                < VAD.minSegMs)
          => (VAD'.segments = VAD.segments /\ toWorker' = toWorker)
     /\ (Len(VAD'.segments) > Len(VAD.segments)
           /\ DurMs(VAD'.segments[Len(VAD'.segments)].startSample,
                    VAD'.segments[Len(VAD'.segments)].endSample)
                < VAD.minSegMs)
          => StopFlush
     /\ StopFlush =>
          /\ Len(VAD'.segments) = Len(VAD.segments) + 1
          /\ SubSeq(VAD'.segments, 1, Len(VAD.segments)) = VAD.segments
          /\ VAD'.segments[Len(VAD'.segments)].startSample
               = VAD.currentSeg[1].startSample
          /\ VAD'.segments[Len(VAD'.segments)].endSample
               = VAD.currentSeg[1].endSample
          /\ Len(toWorker') = Len(toWorker) + 1
          /\ toWorker'[Len(toWorker')].type = "embed"
          /\ toWorker'[Len(toWorker')].id
               = VAD'.segments[Len(VAD'.segments)].id]_vars

\* After a stop, the latest segment is shorter than minSegMs (so the stop
\* flushed it), began after the first sample, and its embedding is requested.
C17_Witness ==
  /\ ~displayStream /\ stopPc = "idle"
  /\ VAD.segments # <<>>
  /\ LET sg == VAD.segments[Len(VAD.segments)]
     IN /\ DurMs(sg.startSample, sg.endSample) < VAD.minSegMs
        /\ sg.startSample > 0
        /\ \E i \in 1..Len(toWorker) :
             toWorker[i].type = "embed" /\ toWorker[i].id = sg.id

\* The ms a segment and a word have in common (negative if they are apart).
Overlap(sg, w) == Min(sg.t1, w.t1) - Max(sg.t0, w.t0)

\* The segments that carry a speaker and intersect the word.
Candidates(segs, w) ==
  {k \in 1..Len(segs) : segs[k].speakerId # null /\ Overlap(segs[k], w) > 0}

\* The candidate with the greatest overlap, the earliest among equals; 0 if
\* there is no candidate.
WinnerIndex(segs, w) ==
  IF Candidates(segs, w) = {} THEN 0
  ELSE CHOOSE k \in Candidates(segs, w) :
         \A j \in Candidates(segs, w) :
           \/ Overlap(segs[j], w) < Overlap(segs[k], w)
           \/ (Overlap(segs[j], w) = Overlap(segs[k], w)
                 /\ segs[k].t0 <= segs[j].t0)

Winner(segs, w) ==
  IF WinnerIndex(segs, w) = 0 THEN null
  ELSE segs[WinnerIndex(segs, w)].speakerId

\* The main thread handles a recognition result that adds words.
ResultApplied ==
  /\ toMain # <<>> /\ Head(toMain).type = "asr_result"
  /\ toMain' = Tail(toMain)
  /\ Len(transcriptWords') > Len(transcriptWords)

\* C11: a word gets, when it is emitted, the speaker of the labelled segment
\* that overlaps it most, the earliest of them on a tie; segments without a
\* speaker are ignored, and the word stays without speaker if no labelled
\* segment intersects it.
C11_GreatestOverlapAtEmission ==
  [][ResultApplied =>
       \A i \in (Len(transcriptWords) + 1)..Len(transcriptWords') :
         transcriptWords'[i].speakerId
           = Winner(VAD.segments, transcriptWords'[i])]_vars

\* A word carries the speaker of the earlier of two labelled segments of
\* different speakers that overlap it equally (it was emitted after both were
\* labelled: a later label would have been written over it).
C11_Witness ==
  \E i \in 1..Len(transcriptWords) :
    \E j, k \in Candidates(VAD.segments, transcriptWords[i]) :
      /\ j < k
      /\ VAD.segments[j].speakerId # VAD.segments[k].speakerId
      /\ Overlap(VAD.segments[j], transcriptWords[i])
           = Overlap(VAD.segments[k], transcriptWords[i])
      /\ transcriptWords[i].speakerId = VAD.segments[j].speakerId

\* The main thread handles the embedding of a segment it holds.
EmbeddingApplied ==
  /\ toMain # <<>> /\ Head(toMain).type = "spk_embed"
  /\ toMain' = Tail(toMain)
  /\ FindId(VAD.segments, Head(toMain).id) # 0

\* C12 (as claimed): when a segment gets its speaker, a word already emitted
\* that intersects it takes that speaker only if the segment wins the overlap
\* comparison for the word, and keeps its own otherwise; a word that does not
\* intersect it is untouched.
C12_OverwriteOnlyIfWins ==
  [][EmbeddingApplied =>
       LET k == FindId(VAD.segments, Head(toMain).id)
       IN \A i \in 1..Len(transcriptWords) :
            transcriptWords'[i].speakerId =
              IF WinnerIndex(VAD'.segments, transcriptWords[i]) = k
                THEN VAD'.segments[k].speakerId
                ELSE transcriptWords[i].speakerId]_vars

\* Nothing is queued, running or on its way.
DiarQuiet ==
  /\ toWorker = <<>> /\ toMain = <<>>
  /\ asrJob = <<>> /\ spkJob = <<>>
  /\ inflightAsr = NoObj

\* C13 (as claimed): once every result and embedding has been applied, each
\* word carries the speaker of the labelled segment that overlaps it most,
\* whatever the order in which they arrived.
C13_EventuallyGreatestOverlap ==
  DiarQuiet =>
    \A i \in 1..Len(transcriptWords) :
      transcriptWords[i].speakerId
        = Winner(VAD.segments, transcriptWords[i])

\* The main thread handles a reply whose id it does not know.
UnknownApplied ==
  /\ toMain # <<>> /\ UnknownId(Main, Head(toMain))
  /\ toMain' = Tail(toMain)

\* C18: a result or an error whose id is not the job in flight, and an
\* embedding whose id is no segment's, is discarded: the buffer, the slot,
\* the words, the transcript segments, the diarization segments, the clusters
\* and the messages to the worker stay as they are.
C18_UnknownIdDiscarded ==
  [][UnknownApplied =>
       UNCHANGED <<pcmBlocks, totalBufferedSamples, inflightAsr,
                   transcriptWords, transcriptSegments, VAD, speakerClusters,
                   nextSpeakerId, toWorker>>]_vars

\* After a Clear, a late recognition result and a late embedding have both
\* been discarded.
C18_Witness == {"asr_result", "spk_embed"} \subseteq discarded

\* The main thread handles the failure of an embedding.
SpkErrorApplied ==
  /\ toMain # <<>> /\ Head(toMain).type = "spk_error"
  /\ toMain' = Tail(toMain)

\* C20: when the embedder fails on a segment, the main thread changes no
\* segment, no cluster and no word, and the segment stays without speaker
\* from then on; the worker is free for the next embedding.
C20_FailedEmbeddingLeavesUnlabelled ==
  [][/\ SpkErrorApplied =>
          UNCHANGED <<VAD, speakerClusters, nextSpeakerId, transcriptWords,
                      transcriptSegments, pcmBlocks, inflightAsr, toWorker>>
     /\ \A k \in 1..Len(VAD'.segments) :
          VAD'.segments[k].id \in spkFailed'
            => VAD'.segments[k].speakerId = null
     /\ (spkJob # <<>> /\ spkJob' = <<>>) => ~spkBusy']_vars

\* A segment whose embedding failed is without speaker, a later one got its
\* speaker and a word was emitted after the failure.
C20_Witness ==
  /\ transcriptWords # <<>>
  /\ \E j, k \in 1..Len(VAD.segments) :
       /\ j < k
       /\ VAD.segments[j].id \in spkFailed
       /\ VAD.segments[j].speakerId = null
       /\ VAD.segments[k].speakerId # null

\* C19 (as claimed): after a recognition job has failed, the next window
\* dispatched starts at the end of the failed window minus overlapSamples
\* (the audio of the failed window is not sent again) and the failure adds
\* no word and no transcript segment and frees the slot.
AsrErrorApplied ==
  /\ toMain # <<>> /\ Head(toMain).type = "asr_error"
  /\ toMain' = Tail(toMain)
  /\ inflightAsr # NoObj /\ inflightAsr[1].id = Head(toMain).id
C19_NextWindowAfterFailure ==
  [][/\ AsrErrorApplied =>
          /\ inflightAsr' = NoObj
          /\ UNCHANGED <<transcriptWords, transcriptSegments, pcmBlocks,
                         totalBufferedSamples, toWorker>>
     /\ (lastFailed # null /\ Len(dispatched') > Len(dispatched)) =>
          dispatched'[Len(dispatched')].startSample
            = lastFailed - getWindowParams.ovlSamples]_vars

\* The embedding of the segment with this id is requested and not answered
\* yet, or its answer (an embedding or a failure) is on its way.
EmbeddingPending(id) ==
  \/ \E i \in 1..Len(toWorker) :
       toWorker[i].type = "embed" /\ toWorker[i].id = id
  \/ spkJob = <<id>>
  \/ \E i \in 1..Len(toMain) :
       toMain[i].type \in {"spk_embed", "spk_error"} /\ toMain[i].id = id

\* C21 (as claimed): every promoted segment has an embedding request sent
\* for it and every request, also one issued while an earlier one is being
\* processed, is answered with an embedding or a failure for that segment:
\* a segment is labelled, or its embedding has failed, or its request or its
\* answer is pending.
C21_EveryRequestAnswered ==
  \A k \in 1..Len(VAD.segments) :
    \/ VAD.segments[k].speakerId # null
    \/ VAD.segments[k].id \in spkFailed
    \/ EmbeddingPending(VAD.segments[k].id)

\* The capture is stopped: stopCapture has completed (or no capture has
\* been started yet) and startCapture has not run since.
Stopped == ~displayStream /\ stopPc = "idle"

\* The main thread handles, while stopped, the result of the job in flight
\* or the embedding of a segment it holds.
LateResultApplied ==
  /\ Stopped
  /\ toMain # <<>> /\ toMain' = Tail(toMain)
  /\ Head(toMain).type = "asr_result"
  /\ inflightAsr # NoObj /\ inflightAsr[1].id = Head(toMain).id
LateEmbeddingApplied ==
  /\ Stopped
  /\ toMain # <<>> /\ toMain' = Tail(toMain)
  /\ Head(toMain).type = "spk_embed"
  /\ FindId(VAD.segments, Head(toMain).id) # 0

ChunkStep == delivered' > delivered

\* Sample i of the running capture is held by the blocks at its index.
BufferedAt(blocks, i) ==
  \E k \in 1..Len(blocks) :
    /\ blocks[k].startSample <= i /\ i < BlockEnd(blocks[k])
    /\ blocks[k].pcm[i - blocks[k].startSample + 1] = Sample(gen, i)

\* Sample i of the running capture is in the window dispatched last.
DispatchedAt(d, i) ==
  /\ d # <<>>
  /\ d[Len(d)].startSample <= i /\ i < d[Len(d)].endSample
  /\ d[Len(d)].audio[i - d[Len(d)].startSample + 1] = Sample(gen, i)

\* C23: the handler of a chunk appends the chunk to the buffer in the same
\* step, job or embedding outstanding or not: after the step every sample of
\* the chunk is in the buffer, or in the window the step itself dispatched;
\* with diarization on the VAD has seen the chunk (a chunk at or above the
\* threshold sets the time of the last speech); while a job is in flight the
\* step dispatches nothing and the buffer grows by the chunk.
C23_IngestionNeverBlocked ==
  [][ChunkStep =>
       /\ \A i \in outSampleCursor..(outSampleCursor' - 1) :
            \/ BufferedAt(pcmBlocks', i)
            \/ (nextId' # nextId /\ DispatchedAt(dispatched', i))
       /\ (VAD.enabled /\ chunkRms' >= VAD.rmsThreshold)
            => VAD'.lastSpeechMs = now'
       /\ inflightAsr # NoObj =>
            /\ nextId' = nextId
            /\ totalBufferedSamples'
                 = totalBufferedSamples + (delivered' - delivered)]_vars

\* A job is in flight and an embedding is being computed, and the buffer
\* ends with a block that begins at or after the end of the window in
\* flight: that chunk arrived after the dispatch.
C23_Witness ==
  /\ inflightAsr # NoObj /\ spkJob # <<>>
  /\ gen = 1
  /\ pcmBlocks # <<>>
  /\ pcmBlocks[Len(pcmBlocks)].startSample >= inflightAsr[1].winEndSample

\* C24 (as claimed): of two transcript segments appended between resets, the
\* one appended earlier comes from the window with the smaller start sample.
\* (A job's result is applied before the next job is dispatched, so the
\* windows that gave a transcript segment are in the order of their
\* segments.)
C24_WindowOrder ==
  \A i, j \in 1..Len(dispatched) :
    (i < j /\ dispatched[i].emitted /\ dispatched[j].emitted)
      => dispatched[i].startSample < dispatched[j].startSample

\* C25 (as claimed): in every reachable state the words of the transcript are
\* in non-decreasing order of their start time t0.
C25_WordsTimeOrdered ==
  \A i, j \in 1..Len(transcriptWords) :
    i < j => transcriptWords[i].t0 <= transcriptWords[j].t0

\* C26 (as claimed): once the first sample block of a session has been
\* observed (firstSampleStart is set), no step other than clearAll changes
\* the session clock: captureStartEpochMs and firstSampleStart stay as they
\* are through chunks, results, stop and start.
C26_ClockFixed ==
  [][(firstSampleStart # null /\ ~ClearAll)
       => UNCHANGED <<captureStartEpochMs, firstSampleStart>>]_vars

\* The identity of the diarization segments (id and sample range) and of the
\* speaker clusters (id), in the order of the collections.
SegmentKeys(segs) ==
  [i \in 1..Len(segs) |-> <<segs[i].id, segs[i].startSample,
                            segs[i].endSample>>]
ClusterIds(cls) == [i \in 1..Len(cls) |-> cls[i].id]
Extends(before, after) ==
  /\ Len(before) <= Len(after)
  /\ \A i \in 1..Len(before) : after[i] = before[i]

\* C27: a step that is not clearAll keeps every diarization segment and every
\* speaker cluster in place and at most appends to the two collections (none
\* is removed, merged or split); a clearAll step empties both collections
\* and sets the next speaker id to 1; a cluster appended to an empty
\* collection has id 1.
C27_GrowOnlyUntilReset ==
  [][/\ ~ClearAll =>
          /\ Extends(SegmentKeys(VAD.segments), SegmentKeys(VAD.segments'))
          /\ Extends(ClusterIds(speakerClusters), ClusterIds(speakerClusters'))
     /\ ClearAll =>
          /\ VAD.segments' = <<>>
          /\ speakerClusters' = <<>>
          /\ nextSpeakerId' = 1
     /\ (speakerClusters = <<>> /\ speakerClusters' # <<>>) =>
          ClusterIds(speakerClusters') = <<1>>]_vars

\* C27 witness: segments were removed by a reset (the segment counter is
\* ahead of the collection), and after it a segment was promoted and a
\* cluster created again.
C27_Witness ==
  /\ nextSegId > Len(VAD.segments) + 1
  /\ VAD.segments # <<>>
  /\ speakerClusters # <<>>

\* C28 (as claimed): the worker constructs a pipeline only on the device the
\* preference allows: with 'webgpu' on WebGPU only (never on WASM), with
\* 'wasm' on WASM only, and with 'auto' on WebGPU first and on WASM only
\* after the construction on WebGPU was attempted.
C28_DevicePreferenceHonoured ==
  \A a \in pipelineLog :
    /\ a.pref = "webgpu" => a.device = "webgpu"
    /\ a.pref = "wasm" => a.device = "wasm"
    /\ (a.pref = "auto" /\ a.device = "wasm")
         => [a EXCEPT !.device = "webgpu"] \in pipelineLog

\* C29 (as claimed): a chunk at or above the threshold observed while no
\* segment is open leaves the VAD in SPEECH with an open segment that starts
\* at the chunk's first sample and ends at the chunk's end.
C29_SpeechOpensSegment ==
  [][(ChunkStep /\ VAD.enabled /\ VAD.currentSeg = NoObj
        /\ chunkRms' >= VAD.rmsThreshold)
       => /\ VAD'.speechOn
          /\ VAD'.currentSeg # NoObj
          /\ VAD'.currentSeg[1].startSample = outSampleCursor
          /\ VAD'.currentSeg[1].endSample = outSampleCursor'
    ]_vars

\* A chunk observed by the VAD while it is in SPEECH, below or at/above the
\* threshold; SinceSpeech is the time on the handler's clock since the last
\* chunk at or above the threshold was observed.
SilentInSpeech ==
  ChunkStep /\ VAD.enabled /\ VAD.speechOn /\ chunkRms' < VAD.rmsThreshold
SpeechInSpeech ==
  ChunkStep /\ VAD.enabled /\ VAD.speechOn /\ chunkRms' >= VAD.rmsThreshold
SinceSpeech == now' - VAD.lastSpeechMs
LeavesSpeech == VAD.speechOn /\ ~VAD'.speechOn

\* A chunk below the threshold within hangoverMs changes neither the state
\* nor the open segment nor the segments.
WithinHangoverUnchanged ==
  (SilentInSpeech /\ SinceSpeech <= VAD.hangoverMs)
    => /\ VAD'.speechOn
       /\ VAD'.currentSeg = VAD.currentSeg
       /\ VAD'.segments = VAD.segments

\* The open segment ends at the end of the last chunk at or above the
\* threshold: such a chunk sets the end of the segment it leaves open to its
\* own end, and a chunk below the threshold leaves an open segment as it is.
EndFollowsSpeech ==
  /\ (ChunkStep /\ VAD.enabled /\ chunkRms' >= VAD.rmsThreshold
        /\ VAD'.currentSeg # NoObj)
       => VAD'.currentSeg[1].endSample = outSampleCursor'
  /\ (ChunkStep /\ VAD.enabled /\ chunkRms' < VAD.rmsThreshold
        /\ VAD'.currentSeg # NoObj)
       => VAD'.currentSeg = VAD.currentSeg

\* The segment [a, b) is closed: added to the segments if it lasts minSegMs,
\* dropped otherwise.
Closes(a, b) ==
  /\ VAD'.currentSeg = NoObj
  /\ IF DurMs(a, b) >= VAD.minSegMs
       THEN /\ Len(VAD'.segments) = Len(VAD.segments) + 1
            /\ VAD'.segments[Len(VAD'.segments)].startSample = a
            /\ VAD'.segments[Len(VAD'.segments)].endSample = b
       ELSE VAD'.segments = VAD.segments

\* SPEECH is left by the hangover rule: on a chunk below the threshold
\* observed more than hangoverMs after the last one at or above it; the open
\* segment is closed with the end it had.
LeftByHangover ==
  /\ SilentInSpeech /\ SinceSpeech > VAD.hangoverMs
  /\ VAD.currentSeg # NoObj
       => Closes(VAD.currentSeg[1].startSample, VAD.currentSeg[1].endSample)

\* SPEECH is left by the cap (lines 739-747): a chunk at or above the
\* threshold extends the open segment beyond maxSegMs; the segment is closed
\* with its end at the end of that chunk.
LeftByCap ==
  /\ SpeechInSpeech /\ VAD.currentSeg # NoObj
  /\ DurMs(VAD.currentSeg[1].startSample, outSampleCursor') > VAD.maxSegMs
  /\ Closes(VAD.currentSeg[1].startSample, outSampleCursor')

CapStep ==
  /\ SpeechInSpeech /\ VAD.currentSeg # NoObj
  /\ DurMs(VAD.currentSeg[1].startSample, outSampleCursor') > VAD.maxSegMs
\* The segment capped by the step is promoted: it is the last of the
\* segments, from the start of the open segment to the end of the chunk.
CapPromotes ==
  /\ Len(VAD'.segments) = Len(VAD.segments) + 1
  /\ VAD'.segments[Len(VAD'.segments)].startSample
       = VAD.currentSeg[1].startSample
  /\ VAD'.segments[Len(VAD'.segments)].endSample = outSampleCursor'
\* The last segment ends where the next chunk begins and the VAD is idle: the
\* state a cap leaves.
JustCapped ==
  /\ VAD.enabled /\ ~VAD.speechOn /\ VAD.segments # <<>>
  /\ VAD.segments[Len(VAD.segments)].endSample = outSampleCursor
  /\ chunkRms >= VAD.rmsThreshold

RECURSIVE EndingAfter(_, _)
EndingAfter(blocks, k) ==
  IF blocks = <<>> THEN <<>>
  ELSE IF BlockEnd(Head(blocks)) <= k THEN EndingAfter(Tail(blocks), k)
  ELSE blocks
\* Some block holds index i.
Holds(blocks, i) ==
  \E j \in 1..Len(blocks) :
    blocks[j].startSample <= i /\ i < BlockEnd(blocks[j])

\* What the claim says of a trim to k of a buffer covering [s, e).
TrimEffect(k) ==
  LET s == pcmBlocks[1].startSample
      e == BlockEnd(pcmBlocks[Len(pcmBlocks)])
      kept == EndingAfter(pcmBlocks, k)
  IN /\ k <= s => pcmBlocks' = pcmBlocks
     /\ (s <= k /\ k <= e) =>
          /\ \A i \in 0..BufSamples :
               /\ (k <= i /\ i < e) => BufferedAt(pcmBlocks', i)
               /\ (i < k \/ i >= e) => ~Holds(pcmBlocks', i)
          /\ Len(pcmBlocks') = Len(kept)
          /\ \A j \in 2..Len(kept) : pcmBlocks'[j] = kept[j]
          /\ pcmBlocks' # <<>> =>
               /\ pcmBlocks'[1].startSample = k
               /\ BlockEnd(pcmBlocks'[1]) = BlockEnd(kept[1])

\* C32: consumeToKeepOverlap(k) on a buffer covering [s, e) with s <= k <= e
\* leaves a buffer covering exactly [k, e) with the same samples at every
\* index from k on: blocks ending at or before k are removed, the block
\* straddling k is cut to start at k, later blocks are unchanged, and a
\* non-empty buffer starts at k; with k <= s nothing changes.
C32_TrimTo ==
  [][\A k \in 0..BufSamples :
       (pcmBlocks # <<>> /\ BufTrim(k)) => TrimEffect(k)]_vars

\* C32 witness: the first block was cut by a trim (the processor delivers no
\* chunk of one sample) and a whole block follows it.
C32_Witness ==
  /\ Len(pcmBlocks) >= 2
  /\ Len(pcmBlocks[1].pcm) = 1
  /\ pcmBlocks[1].startSample > 0

\* What identifies the words of the transcript, in their order.
WordKeys(words) ==
  [i \in 1..Len(words) |-> <<words[i].t0, words[i].t1, words[i].text>>]

\* C33: a step that is not clearAll keeps every word of the transcript in its
\* place with its start time, end time and text, and at most appends words;
\* applying an embedding result adds and removes no word (it changes
\* speakerId fields only).
C33_WordsImmutable ==
  [][/\ ~ClearAll => Extends(WordKeys(transcriptWords),
                             WordKeys(transcriptWords'))
     /\ EmbeddingApplied =>
          WordKeys(transcriptWords') = WordKeys(transcriptWords)]_vars

\* C33 witness: a word carries a speaker that the labelled segments would not
\* give it on emission, so an embedding result applied after the word was
\* added has patched its speakerId.
C33_Witness ==
  \E i \in 1..Len(transcriptWords) :
    /\ transcriptWords[i].speakerId # null
    /\ transcriptWords[i].speakerId
         # Winner(VAD.segments, transcriptWords[i])

\* C34 (as claimed): the parameters the scheduler uses satisfy
\* 0 <= overlapSamples < windowSamples, and every dispatched window starts
\* strictly later than the one dispatched before it.
C34_OverlapBelowWindow ==
  /\ 0 <= getWindowParams.ovlSamples
  /\ getWindowParams.ovlSamples < getWindowParams.winSamples
  /\ \A i \in 1..(Len(dispatched) - 1) :
       dispatched[i].startSample < dispatched[i + 1].startSample

\* C35 (as claimed): in every reachable state the VAD is in SPEECH exactly
\* when a segment is open.
C35_SpeechIffOpenSegment == VAD.speechOn <=> (VAD.currentSeg # NoObj)

\* C36 (as claimed): while capture is active, once a chunk has been received
\* since the last reset (the chunk handler has anchored firstSampleStart),
\* captureStartEpochMs is set as well, so that sampleToEpochMs is defined.
C36_AnchorsSet ==
  (displayStream /\ firstSampleStart # null) => captureStartEpochMs # null

\* The samples captured at the indices [startSample, endSample) by the
\* capture instance g.
Captured(g, startSample, endSample) ==
  [k \in 1..(endSample - startSample) |-> Sample(g, startSample + k - 1)]

\* C37 (as claimed): the audio of every promoted segment, which is what
\* requestSpeakerEmbedding sends to the embedding engine, is exactly the
\* captured samples of [startSample, endSample): no sample is missing or
\* zero-filled, also when a recognition window was dispatched while the segment
\* was open.
C37_EmbeddingAudioIsCaptured ==
  \A i \in 1..Len(VAD.segments) :
    LET seg == VAD.segments[i]
    IN \E g \in 1..MaxStarts :
         seg.pcm = Captured(g, seg.startSample, seg.endSample)

\* C38 (as claimed): successive summarization deltas cover the transcript
\* without skipping: every character of the text before lastSummarizedChar
\* was part of a delta the server has answered, also when text is appended
\* while a call waits and when two calls run concurrently.
C38_DeltasCoverText ==
  \A p \in 1..lastSummarizedChar :
    p <= Len(transcriptTa) => transcriptTa[p] \in summarizedChars

\* The sum of the counts of the clusters.
RECURSIVE CountSum(_)
CountSum(cls) ==
  IF cls = <<>> THEN 0 ELSE Head(cls).count + CountSum(Tail(cls))

\* The segments an embedding result has been applied to since the last
\* reset: each gets one request, and its result sets its speakerId.
Labelled(segs) == {i \in 1..Len(segs) : segs[i].speakerId # null}

\* Every speaker id the words carry is null or one of ids.
WordsLabelledIn(words, ids) ==
  \A i \in 1..Len(words) : words[i].speakerId \in ids \cup {null}

\* C39: the clusters have the ids 1..n in creation order and nextSpeakerId is
\* n + 1; every count is at least 1 and the counts add up to the number of
\* embedding results applied since the last reset; every speaker id on a
\* segment or a word is null or the id of an existing cluster.
C39_ClustersConsistent ==
  LET n == Len(speakerClusters)
  IN /\ ClusterIds(speakerClusters) = [i \in 1..n |-> i]
     /\ nextSpeakerId = n + 1
     /\ \A i \in 1..n : speakerClusters[i].count >= 1
     /\ CountSum(speakerClusters) = Cardinality(Labelled(VAD.segments))
     /\ \A i \in 1..Len(VAD.segments) :
          VAD.segments[i].speakerId \in (1..n) \cup {null}
     /\ WordsLabelledIn(transcriptWords, 1..n)
     /\ \A i \in 1..Len(transcriptSegments) :
          WordsLabelledIn(transcriptSegments[i].words, 1..n)

\* C39 witness: two embedding results have been applied and a word carries
\* the id of a cluster.
C39_Witness ==
  /\ CountSum(speakerClusters) >= 2
  /\ \E i \in 1..Len(transcriptWords) : transcriptWords[i].speakerId # null

\* The capture instance that posted a block, read off its first sample.
InstanceOf(b) == b.pcm[1][1]

\* C40: the chunks the capture processor posts have contiguous absolute
\* sample indices: every chunk is non-empty, the first chunk of an instance
\* starts at 0, every other chunk starts where the chunk before it ended, and
\* the counter of the running instance stands at the end of its last chunk (0
\* before its first), so a frame that yields no output does not advance it.
C40_ChunksContiguous ==
  /\ \A i \in 1..Len(pcmBlocks) :
       LET b == pcmBlocks[i]
       IN /\ Len(b.pcm) >= 1
          /\ IF i = 1 \/ InstanceOf(pcmBlocks[i - 1]) # InstanceOf(b)
               THEN b.startSample = 0
               ELSE b.startSample = BlockEnd(pcmBlocks[i - 1])
  /\ outSampleCursor =
       IF pcmBlocks # <<>> /\ InstanceOf(pcmBlocks[Len(pcmBlocks)]) = gen
         THEN BlockEnd(pcmBlocks[Len(pcmBlocks)])
         ELSE 0

\* C40 witness: on a device that is not at 16 kHz the second instance has
\* posted two chunks after the first instance posted one.
C40_Witness ==
  /\ inRate # OutRate
  /\ Len(pcmBlocks) >= 3
  /\ InstanceOf(pcmBlocks[1]) = 1
  /\ InstanceOf(pcmBlocks[Len(pcmBlocks) - 1]) = 2
  /\ InstanceOf(pcmBlocks[Len(pcmBlocks)]) = 2

====
